---- MODULE Spec2Model ----
(***************************************************************************)
(* mdevctl: the callout engine that wraps a lifecycle action of a mediated *)
(* device in pre / post / notify hook scripts.                             *)
(*                                                                         *)
(* The repository holds two implementations of the callout session:        *)
(*   engine = "callouts" : src/src/callouts.rs, Callout::invoke and the    *)
(*                         private stages callout() and notify();          *)
(*   engine = "mdev"     : src/src/mdev.rs, Callout::callout() and         *)
(*                         Callout::callout_notify(), whose caller is not  *)
(*                         part of the sources and is sequenced here as    *)
(*                         the documented state machine                    *)
(*                         Start -> Pre -> {Aborted | Action} -> Post ->   *)
(*                         Notify -> Done.                                 *)
(* A behaviour is one session (one wrapped action) of one of the engines.  *)
(***************************************************************************)
EXTENDS Integers, Sequences, FiniteSets, TLC

(***************************************************************************)
(* Bounds of the model.                                                    *)
(***************************************************************************)
\* largest number of entries of the notification script directory
MaxNotifyEntries == 2

(***************************************************************************)
(* Values.                                                                 *)
(***************************************************************************)
\* Option<T>: None is the empty sequence, Some(x) is <<x>>
None == << >>
Some(x) == << x >>

\* names of the scripts that may appear in the hook directory, in the order
\* in which the file system lists them
HookNames == <<"A", "B", "C">>
\* names of the scripts that may appear in the notification directory
NotifyNames == <<"N1", "N2">>

\* exit codes a script may return: claim, hard failure, decline
ExitCodes == {0, 1, 2}

\* Result<Output> of an invocation of a script. Either the child ran and left
\* an exit status: code = Some(n), or None when a signal killed it. Or
\* invoke_script returned Err: the spawn failed, or the child was spawned and
\* the write to its stdin or the wait failed (child = TRUE: a child process
\* may have been created). NotFound is the Err of spawning a path that is no
\* longer in the directory: no child process is created.
Exited(n) == [ok |-> TRUE, code |-> Some(n), child |-> TRUE]
Signaled == [ok |-> TRUE, code |-> None, child |-> TRUE]
InvokeErr == [ok |-> FALSE, code |-> None, child |-> TRUE]
NotFound == [ok |-> FALSE, code |-> None, child |-> FALSE]
\* the outcomes the environment chooses from for a script that exists
Outcomes == {Exited(n) : n \in ExitCodes} \cup {Signaled, InvokeErr}

Events == {"pre", "post", "notify"}
\* the Action values the sessions of the model wrap
Actions == {"start", "stop"}
States == {"none", "success", "failure"}
MdevTypes == {"vgpu-1"}
DevParent == "pci0"
DevUuid == "976d8cc2-4bfc-43b9-b9f9-f4af2de91ab9"

\* Result<()> of a stage, of the wrapped operation and of invoke
Ok == [ok |-> TRUE, kind |-> "ok", script |-> "", code |-> None]
\* callouts.rs: "callout script {script} failed with return code {n}"
CalloutErr(s, n) == [ok |-> FALSE, kind |-> "callout", script |-> s, code |-> Some(n)]
\* mdev.rs: "aborting command due to results from callout script {script}"
AbortErr(s) == [ok |-> FALSE, kind |-> "abort", script |-> s, code |-> None]
\* an io error of read_dir or of the child process, passed on by `?`
IoErr == [ok |-> FALSE, kind |-> "io", script |-> "", code |-> None]
\* the error of the wrapped operation
OpErr == [ok |-> FALSE, kind |-> "operation", script |-> "", code |-> None]
\* a result that has not been produced yet
Unset == [ok |-> FALSE, kind |-> "unset", script |-> "", code |-> None]

Range(s) == {s[i] : i \in 1..Len(s)}

RECURSIVE Listing(_, _)
\* the entries of order that are in S, in the order of order
Listing(order, S) ==
    IF order = << >> THEN << >>
    ELSE IF Head(order) \in S
    THEN <<Head(order)>> \o Listing(Tail(order), S)
    ELSE Listing(Tail(order), S)

\* a directory of scripts: is_dir() and the entries in read_dir() order; the
\* file system lists the names it holds in one fixed order
NoDir == [isdir |-> FALSE, entries |-> << >>]
DirsOver(order, n) ==
    {[isdir |-> TRUE, entries |-> Listing(order, S)] :
        S \in {T \in SUBSET Range(order) : Cardinality(T) <= n}} \cup {NoDir}
HookDirs == DirsOver(HookNames, Len(HookNames))
NotifyDirs == DirsOver(NotifyNames, MaxNotifyEntries)

VARIABLES
    engine,     \* which implementation runs the session
    action,     \* Action wrapped by the session
    dev,        \* the MDev of the session
    hookDir,    \* callout_script_base(): the pre/post script directory
    notifyDir,  \* callout_notification_base(): the notification directory
    pc,         \* position of the session in its state machine
    state,      \* Callout.state
    script,     \* Callout.script, "" when no script is selected
    preScript,  \* Callout.script as the Pre stage left it
    conf,       \* mdev.rs Callout.conf: None while empty, else Some(text)
    trace,      \* the pre/post script invocations, oldest first
    notified,   \* the notify script invocations, oldest first
    listings,   \* the accesses to the script directories, oldest first
    stages,     \* the stages and the operation that have run, oldest first
    preRes,     \* result of the Pre stage
    opRes,      \* result of the wrapped operation
    postRes,    \* result of the Post stage
    res,        \* result returned by the session
    sysfs,      \* the kernel device tree and the parent registry
    doc,        \* the persisted definition files: the text at each path
    mpc,        \* position of the MDev operation that is running
    frame,      \* arguments and locals of the MDev operation
    ret,        \* Result<()> of the last MDev operation
    log         \* writes to control files and warnings, oldest first

\* the state of a callout session
sessionvars == <<engine, action, hookDir, notifyDir, pc, state, script,
                 preScript, conf, trace, notified, listings, stages, preRes,
                 opRes, postRes, res>>

\* the state of the operations of MDev; dev is the device of both
devvars == <<sysfs, doc, mpc, frame, ret, log>>

vars == <<engine, action, dev, hookDir, notifyDir, pc, state, script,
          preScript, conf,
          trace, notified, listings, stages, preRes, opRes, postRes, res,
          sysfs, doc, mpc, frame, ret, log>>

(***************************************************************************)
(* The device and what a script is given.                                  *)
(***************************************************************************)
\* MDev::new, then populated: a session wraps an action on a device that has
\* its parent and its mdev_type
NewDev(t) ==
    [uuid |-> DevUuid, active |-> FALSE, autostart |-> FALSE,
     parent |-> Some(DevParent), mdev_type |-> Some(t), attrs |-> << >>]

\* MDev::to_json(false): the {mdev_type, start, attrs} projection
to_json(d) ==
    [mdev_type |-> d.mdev_type[1],
     start |-> IF d.autostart THEN "auto" ELSE "manual",
     attrs |-> d.attrs]

\* callouts.rs invoke_script: the command line and the standard input of
\* the child; -t is passed for every event
invoke_script(d, st, event, act) ==
    [t |-> d.mdev_type, e |-> event, a |-> act, s |-> st,
     u |-> d.uuid, p |-> d.parent[1], stdin |-> to_json(d)]

\* mdev.rs invoke_script: -t is left out for the notify event, the standard
\* input is the conf of the session
mdev_invoke_script(d, st, event, act, cf) ==
    [t |-> IF event = "notify" THEN None ELSE d.mdev_type,
     e |-> event, a |-> act, s |-> st,
     u |-> d.uuid, p |-> d.parent[1], stdin |-> cf[1]]

\* what running script p yields: the environment's choice outs[p] while the
\* file is in the directory, a failed spawn once it is gone
Run(dir, p, outs) ==
    IF dir.isdir /\ p \in Range(dir.entries) THEN outs[p] ELSE NotFound

\* the choices of the environment for one stage: an outcome for every script
\* of the directory
OutcomesOf(dir) == [Range(dir.entries) -> Outcomes]

\* print_output(output, script, stderr, stdout): the streams of the Output
\* of a script whose content goes to the console or to the log
print_output(stderr, stdout) == [stderr |-> stderr, stdout |-> stdout]
\* print_output is not called for the Output of a script
NotPrinted == [stderr |-> FALSE, stdout |-> FALSE]

\* the scripts a stage ran, with what was surfaced of each: print_output was
\* called with the flags p for the invocations at the positions S
Surfaced(invoked, S, p) ==
    [i \in 1..Len(invoked) |->
        [script |-> invoked[i].script, out |-> invoked[i].out,
         shown |-> IF i \in S THEN p ELSE NotPrinted]]

\* the positions of the invocations that yielded an Output
WithOutput(invoked) == {i \in 1..Len(invoked) : invoked[i].out.ok}

(***************************************************************************)
(* callouts.rs: the stages of Callout.                                     *)
(* A stage yields ret (its Result), script (Callout.script afterwards),    *)
(* invoked (the scripts it ran with their outcomes, in order) and fs (its  *)
(* accesses to the directory, in order).                                   *)
(***************************************************************************)
RECURSIVE first_matching_loop_past_claim(_, _, _)
\* the scan going on after a script has claimed the device
first_matching_loop_past_claim(entries, outs, invoked) ==
    IF entries = << >>
    THEN [found |-> FALSE, path |-> "", out |-> NotFound, invoked |-> invoked]
    ELSE LET path == Head(entries)
             o == outs[path]
             inv == Append(invoked, [script |-> path, out |-> o])
         IN  IF o.ok /\ o.code \notin {None, Some(0), Some(2)}
             THEN [found |-> TRUE, path |-> path, out |-> o, invoked |-> inv]
             ELSE first_matching_loop_past_claim(Tail(entries), outs, inv)

RECURSIVE first_matching_loop(_, _, _)
\* callouts.rs invoke_first_matching_script, the for loop: a failed
\* invocation and a signalled script are skipped, exit code 2 goes on to the
\* next entry, any other exit code ends the scan with that script
first_matching_loop(entries, outs, invoked) ==
    IF entries = << >>
    THEN [found |-> FALSE, path |-> "", out |-> NotFound, invoked |-> invoked]
    ELSE LET path == Head(entries)
             o == outs[path]
             inv == Append(invoked, [script |-> path, out |-> o])
         IN  IF ~o.ok
             THEN first_matching_loop(Tail(entries), outs, inv)
             ELSE IF o.code = None
             THEN first_matching_loop(Tail(entries), outs, inv)
             ELSE IF o.code # Some(2)
             THEN [found |-> TRUE, path |-> path, out |-> o, invoked |-> inv]
             ELSE first_matching_loop(Tail(entries), outs, inv)

\* callouts.rs invoke_first_matching_script
invoke_first_matching_script(dir, outs) ==
    IF Len(dir.entries) = 0
    THEN [found |-> FALSE, path |-> "", out |-> NotFound, invoked |-> << >>,
          fs |-> <<"count">>]
    ELSE [fs |-> <<"count", "iterate">>]
            @@ first_matching_loop(dir.entries, outs, << >>)

\* a missing return code taken for a failure
callout_result_none_fails(rc, s) ==
    IF rc = Some(0) THEN Ok
    ELSE IF rc = None THEN AbortErr(s)
    ELSE CalloutErr(s, rc[1])

\* callouts.rs callout, the final match on rc
callout_result(rc, s) ==
    IF rc = Some(0) \/ rc = None THEN Ok ELSE CalloutErr(s, rc[1])

\* callout scanning the directory in every stage, whatever was selected
callout_rescans(s, dir, outs) ==
    IF ~dir.isdir
    THEN [ret |-> Ok, script |-> s, invoked |-> << >>, fs |-> <<"is_dir">>]
    ELSE LET m == invoke_first_matching_script(dir, outs)
             sel == IF m.found THEN m.path ELSE s
             rc == IF m.found THEN m.out.code ELSE None
         IN  [ret |-> callout_result(rc, sel), script |-> sel,
              invoked |-> Surfaced(m.invoked,
                                   IF m.found THEN {Len(m.invoked)} ELSE {},
                                   print_output(TRUE, FALSE)),
              fs |-> <<"is_dir">> \o m.fs]

\* callouts.rs Callout::callout
callout(s, dir, outs) ==
    IF ~dir.isdir
    THEN [ret |-> Ok, script |-> s, invoked |-> << >>, fs |-> <<"is_dir">>]
    ELSE IF s # ""
    THEN LET o == Run(dir, s, outs)
             rc == IF o.ok THEN o.code ELSE None
         IN  [ret |-> callout_result(rc, s), script |-> s,
              invoked |-> Surfaced(<<[script |-> s, out |-> o]>>,
                                   IF o.ok THEN {1} ELSE {},
                                   print_output(TRUE, FALSE)),
              fs |-> <<"is_dir">>]
    ELSE LET m == invoke_first_matching_script(dir, outs)
             sel == IF m.found THEN m.path ELSE s
             rc == IF m.found THEN m.out.code ELSE None
         IN  [ret |-> callout_result(rc, sel), script |-> sel,
              invoked |-> Surfaced(m.invoked,
                                   IF m.found THEN {Len(m.invoked)} ELSE {},
                                   print_output(TRUE, FALSE)),
              fs |-> <<"is_dir">> \o m.fs]

RECURSIVE notify_loop_stops(_, _, _)
\* the notification loop ending at the first script that cannot be run
notify_loop_stops(entries, outs, invoked) ==
    IF entries = << >> THEN invoked
    ELSE LET path == Head(entries)
             o == outs[path]
             inv == Append(invoked, [script |-> path, out |-> o])
         IN  IF o.ok
             THEN notify_loop_stops(Tail(entries), outs, inv)
             ELSE inv

RECURSIVE notify_loop(_, _, _)
\* callouts.rs notify, the for loop: every entry is invoked, whatever the
\* earlier ones returned
notify_loop(entries, outs, invoked) ==
    IF entries = << >> THEN invoked
    ELSE LET path == Head(entries)
             o == outs[path]
             inv == Append(invoked, [script |-> path, out |-> o])
         IN  IF o.ok
             THEN notify_loop(Tail(entries), outs, inv)
             ELSE notify_loop(Tail(entries), outs, inv)

\* callouts.rs Callout::notify
notify(dir, outs) ==
    IF ~dir.isdir
    THEN [ret |-> Ok, invoked |-> << >>, fs |-> <<"is_dir">>]
    ELSE [ret |-> Ok,
          invoked |-> Surfaced(notify_loop(dir.entries, outs, << >>), {},
                               NotPrinted),
          fs |-> <<"is_dir", "iterate">>]

(***************************************************************************)
(* mdev.rs: the stages of Callout.                                         *)
(***************************************************************************)
RECURSIVE mdev_callout_loop(_, _, _, _)
\* mdev.rs callout, the for loop: a failed invocation returns its error at
\* once (`res?`); any result other than exit code 2, a missing exit code
\* included, makes the script the selected one and ends the scan
mdev_callout_loop(entries, outs, invoked, rc) ==
    IF entries = << >>
    THEN [failed |-> FALSE, rc |-> rc, script |-> "", invoked |-> invoked]
    ELSE LET path == Head(entries)
             o == outs[path]
             inv == Append(invoked, [script |-> path, out |-> o])
         IN  IF ~o.ok
             THEN [failed |-> TRUE, rc |-> rc, script |-> "", invoked |-> inv]
             ELSE IF o.code # Some(2)
             THEN [failed |-> FALSE, rc |-> o.code, script |-> path,
                   invoked |-> inv]
             ELSE mdev_callout_loop(Tail(entries), outs, inv, o.code)

\* mdev.rs callout, the final match on rc
mdev_callout_result(rc, s) ==
    IF rc = Some(0) THEN Ok ELSE AbortErr(s)

\* mdev.rs callout scanning the directory in every stage
mdev_callout_rescans(s, dir, outs) ==
    IF ~dir.isdir
    THEN [ret |-> IoErr, script |-> s, invoked |-> << >>, fs |-> <<"read_dir">>]
    ELSE IF Len(dir.entries) = 0
    THEN [ret |-> Ok, script |-> s, invoked |-> << >>, fs |-> <<"count">>]
    ELSE LET m == mdev_callout_loop(dir.entries, outs, << >>, Some(0))
             sel == IF m.script # "" THEN m.script ELSE s
         IN  [ret |-> IF m.failed THEN IoErr
                      ELSE mdev_callout_result(m.rc, sel),
              script |-> sel,
              invoked |-> Surfaced(m.invoked, WithOutput(m.invoked),
                                   print_output(TRUE, FALSE)),
              fs |-> <<"count", "iterate">>]

\* mdev.rs Callout::callout (after conf is filled in)
mdev_callout(s, dir, outs) ==
    IF ~dir.isdir
    THEN [ret |-> IoErr, script |-> s, invoked |-> << >>, fs |-> <<"read_dir">>]
    ELSE IF Len(dir.entries) = 0
    THEN [ret |-> Ok, script |-> s, invoked |-> << >>, fs |-> <<"count">>]
    ELSE IF s = ""
    THEN LET m == mdev_callout_loop(dir.entries, outs, << >>, Some(0))
         IN  [ret |-> IF m.failed THEN IoErr
                      ELSE mdev_callout_result(m.rc, m.script),
              script |-> m.script,
              invoked |-> Surfaced(m.invoked, WithOutput(m.invoked),
                                   print_output(TRUE, FALSE)),
              fs |-> <<"count", "iterate">>]
    ELSE LET o == Run(dir, s, outs)
         IN  [ret |-> IF ~o.ok THEN IoErr ELSE mdev_callout_result(o.code, s),
              script |-> s,
              invoked |-> Surfaced(<<[script |-> s, out |-> o]>>,
                                   IF o.ok THEN {1} ELSE {},
                                   print_output(TRUE, FALSE)),
              fs |-> <<"count">>]

\* mdev.rs Callout::callout_notify: every entry is invoked and its result
\* is dropped
callout_notify(dir, outs) ==
    IF ~dir.isdir
    THEN [ret |-> IoErr, invoked |-> << >>, fs |-> <<"read_dir">>]
    ELSE IF Len(dir.entries) = 0
    THEN [ret |-> Ok, invoked |-> << >>, fs |-> <<"count">>]
    ELSE LET inv == [i \in 1..Len(dir.entries) |->
                        [script |-> dir.entries[i],
                         out |-> outs[dir.entries[i]]]]
         IN  [ret |-> Ok,
              invoked |-> Surfaced(inv, WithOutput(inv),
                                   print_output(TRUE, TRUE)),
              fs |-> <<"count", "iterate">>]

(***************************************************************************)
(* The session.                                                            *)
(***************************************************************************)
\* no operation of MDev is running: the closure of a session is a result only
NoOperation ==
    /\ sysfs = None
    /\ doc = << >>
    /\ mpc = "Idle"
    /\ frame = None
    /\ ret = Unset
    /\ log = << >>

\* Callout::new() (callouts.rs 79-85, mdev.rs 495-503) for a device, an
\* action and the two script directories as the session finds them
Init ==
    /\ engine \in {"callouts", "mdev"}
    /\ action \in Actions
    /\ dev \in {NewDev(t) : t \in MdevTypes}
    /\ hookDir \in HookDirs
    /\ notifyDir \in NotifyDirs
    /\ pc = "Start"
    /\ state = "none"
    /\ script = ""
    /\ preScript = ""
    /\ conf = None
    /\ trace = << >>
    /\ notified = << >>
    /\ listings = << >>
    /\ stages = << >>
    /\ preRes = Unset
    /\ opRes = Unset
    /\ postRes = Unset
    /\ res = Unset
    /\ NoOperation

\* the records of the trace for the scripts a pre/post stage ran
Invocations(event, invoked, args) ==
    [i \in 1..Len(invoked) |->
        [event |-> event, script |-> invoked[i].script, out |-> invoked[i].out,
         shown |-> invoked[i].shown, args |-> args]]

\* the records of the directory accesses of a stage
Accesses(event, fs) == [i \in 1..Len(fs) |-> [event |-> event, op |-> fs[i]]]

\* and_then run although the Pre callout failed
and_then_always(pre_ret) == "ActionRunning"

\* invoke returning the Pre error at once, as `?` would
and_then_returns(pre_ret) == IF pre_ret.ok THEN "ActionRunning" ELSE "Done"

\* callouts.rs invoke, line 97: and_then runs its closure (the operation and
\* the Post callout) only when the Pre callout returned Ok
and_then(pre_ret) == IF pre_ret.ok THEN "ActionRunning" ELSE "Aborted"

\* the state label not following the result of the operation
state_always_success(tmp_res) == "success"

\* callouts.rs invoke, lines 99-102: the state label after the operation
state_after(tmp_res) == IF tmp_res.ok THEN "success" ELSE "failure"

\* the closure passing on the error of the Post callout, as `?` would
closure_result_post(tmp_res, post_res) ==
    IF post_res.ok THEN tmp_res ELSE post_res

\* callouts.rs invoke, lines 104-109: the error of the Post callout is only
\* logged, the closure yields the result of the operation
closure_result(tmp_res, post_res) == tmp_res

\* the closure leaving at the error of the operation, as `func(dev)?` would
after_operation_returns(tmp_res) ==
    IF tmp_res.ok THEN "PostRunning" ELSE "NotifyRunning"

\* callouts.rs invoke, lines 98-104: the Post callout follows the operation
\* whatever tmp_res is
after_operation(tmp_res) == "PostRunning"

\* callouts.rs invoke, line 97: the Pre callout; its error skips the closure
\* of and_then and becomes the result of invoke
InvokePre ==
    /\ engine = "callouts"
    /\ pc = "Start"
    /\ \E outs \in OutcomesOf(hookDir) :
         LET r == callout(script, hookDir, outs)
         IN  /\ script' = r.script
             /\ preScript' = r.script
             /\ trace' = trace \o Invocations("pre", r.invoked,
                                    invoke_script(dev, state, "pre", action))
             /\ listings' = listings \o Accesses("pre", r.fs)
             /\ preRes' = r.ret
             /\ res' = IF r.ret.ok THEN res ELSE r.ret
             /\ pc' = and_then(r.ret)
    /\ stages' = Append(stages, "pre")
    /\ UNCHANGED <<engine, action, dev, hookDir, notifyDir, state, conf,
                   notified, opRes, postRes>>
    /\ UNCHANGED devvars

\* callouts.rs invoke, lines 98-102: the wrapped operation and the state
\* label it leaves
InvokeOperation ==
    /\ engine = "callouts"
    /\ pc = "ActionRunning"
    /\ \E tmp_res \in {Ok, OpErr} :
         /\ opRes' = tmp_res
         /\ state' = state_after(tmp_res)
         /\ pc' = after_operation(tmp_res)
    /\ stages' = Append(stages, "operation")
    /\ UNCHANGED <<preScript, engine, action, dev, hookDir, notifyDir, script, conf,
                   trace, notified, listings, preRes, postRes, res>>
    /\ UNCHANGED devvars

\* callouts.rs invoke, lines 104-109: the Post callout, whose error is only
\* logged; the closure yields tmp_res
InvokePost ==
    /\ engine = "callouts"
    /\ pc = "PostRunning"
    /\ \E outs \in OutcomesOf(hookDir) :
         LET r == callout(script, hookDir, outs)
         IN  /\ script' = r.script
             /\ trace' = trace \o Invocations("post", r.invoked,
                                    invoke_script(dev, state, "post", action))
             /\ listings' = listings \o Accesses("post", r.fs)
             /\ postRes' = r.ret
             /\ res' = closure_result(opRes, r.ret)
    /\ stages' = Append(stages, "post")
    /\ pc' = "NotifyRunning"
    /\ UNCHANGED <<preScript, engine, action, dev, hookDir, notifyDir, state, conf,
                   notified, preRes, opRes>>
    /\ UNCHANGED devvars

\* callouts.rs invoke, lines 112-113: the Notify stage, whose result is
\* dropped, then the return of res
InvokeNotify ==
    /\ engine = "callouts"
    /\ pc \in {"Aborted", "NotifyRunning"}
    /\ \E outs \in OutcomesOf(notifyDir) :
         LET r == notify(notifyDir, outs)
         IN  /\ notified' = notified \o
                    [i \in 1..Len(r.invoked) |->
                        [script |-> r.invoked[i].script,
                         out |-> r.invoked[i].out,
                         shown |-> r.invoked[i].shown,
                         args |-> invoke_script(dev, state, "notify", action)]]
             /\ listings' = listings \o Accesses("notify", r.fs)
    /\ stages' = Append(stages, "notify")
    /\ pc' = "Done"
    /\ UNCHANGED <<preScript, engine, action, dev, hookDir, notifyDir, state, script,
                   conf, trace, preRes, opRes, postRes, res>>
    /\ UNCHANGED devvars

\* mdev.rs callout, lines 586-588: conf is computed on the first stage only
FillConf(cf, d) == IF cf = None THEN Some(to_json(d)) ELSE cf

\* the caller of mdev.rs Callout: callout("pre", action)
MdevPre ==
    /\ engine = "mdev"
    /\ pc = "Start"
    /\ conf' = FillConf(conf, dev)
    /\ \E outs \in OutcomesOf(hookDir) :
         LET r == mdev_callout(script, hookDir, outs)
         IN  /\ script' = r.script
             /\ preScript' = r.script
             /\ trace' = trace \o Invocations("pre", r.invoked,
                            mdev_invoke_script(dev, state, "pre", action, conf'))
             /\ listings' = listings \o Accesses("pre", r.fs)
             /\ preRes' = r.ret
             /\ res' = IF r.ret.ok THEN res ELSE r.ret
             /\ pc' = IF r.ret.ok THEN "ActionRunning" ELSE "Aborted"
    /\ stages' = Append(stages, "pre")
    /\ UNCHANGED <<engine, action, dev, hookDir, notifyDir, state, notified,
                   opRes, postRes>>
    /\ UNCHANGED devvars

\* the caller of mdev.rs Callout: the operation, then set_state
MdevOperation ==
    /\ engine = "mdev"
    /\ pc = "ActionRunning"
    /\ \E tmp_res \in {Ok, OpErr} :
         /\ opRes' = tmp_res
         /\ state' = IF tmp_res.ok THEN "success" ELSE "failure"
    /\ stages' = Append(stages, "operation")
    /\ pc' = "PostRunning"
    /\ UNCHANGED <<preScript, engine, action, dev, hookDir, notifyDir, script, conf,
                   trace, notified, listings, preRes, postRes, res>>
    /\ UNCHANGED devvars

\* the caller of mdev.rs Callout: callout("post", action)
MdevPost ==
    /\ engine = "mdev"
    /\ pc = "PostRunning"
    /\ conf' = FillConf(conf, dev)
    /\ \E outs \in OutcomesOf(hookDir) :
         LET r == mdev_callout(script, hookDir, outs)
         IN  /\ script' = r.script
             /\ trace' = trace \o Invocations("post", r.invoked,
                            mdev_invoke_script(dev, state, "post", action, conf'))
             /\ listings' = listings \o Accesses("post", r.fs)
             /\ postRes' = r.ret
    /\ res' = opRes
    /\ stages' = Append(stages, "post")
    /\ pc' = "NotifyRunning"
    /\ UNCHANGED <<preScript, engine, action, dev, hookDir, notifyDir, state, notified,
                   preRes, opRes>>
    /\ UNCHANGED devvars

\* the caller of mdev.rs Callout: callout_notify("notify", action)
MdevNotify ==
    /\ engine = "mdev"
    /\ pc \in {"Aborted", "NotifyRunning"}
    /\ \E outs \in OutcomesOf(notifyDir) :
         LET r == callout_notify(notifyDir, outs)
         IN  /\ notified' = notified \o
                    [i \in 1..Len(r.invoked) |->
                        [script |-> r.invoked[i].script,
                         out |-> r.invoked[i].out,
                         shown |-> r.invoked[i].shown,
                         args |-> mdev_invoke_script(dev, state, "notify",
                                                     action, FillConf(conf, dev))]]
             /\ listings' = listings \o Accesses("notify", r.fs)
    /\ stages' = Append(stages, "notify")
    /\ pc' = "Done"
    /\ UNCHANGED <<preScript, engine, action, dev, hookDir, notifyDir, state, script,
                   conf, trace, preRes, opRes, postRes, res>>
    /\ UNCHANGED devvars

\* the environment: the content of the hook directory changes while the
\* wrapped operation runs, between the Pre and the Post stage
HookDirChange ==
    /\ pc = "ActionRunning"
    /\ hookDir' \in HookDirs \ {hookDir}
    /\ UNCHANGED <<preScript, engine, action, dev, notifyDir, pc, state, script, conf,
                   trace, notified, listings, stages, preRes, opRes, postRes,
                   res>>
    /\ UNCHANGED devvars

Next ==
    \/ InvokePre
    \/ InvokeOperation
    \/ InvokePost
    \/ InvokeNotify
    \/ MdevPre
    \/ MdevOperation
    \/ MdevPost
    \/ MdevNotify
    \/ HookDirChange

Spec == Init /\ [][Next]_vars

(***************************************************************************)
(* A session whose wrapped operation changes the device: func takes        *)
(* &mut MDev (callouts.rs line 89), and the operation of a modify command  *)
(* changes what to_json() shows. A behaviour of SpecModify is one session  *)
(* of the modify action.                                                   *)
(***************************************************************************)
\* what the operation of modify may do to the device
Modified(d) ==
    {[d EXCEPT !.autostart = TRUE],
     [d EXCEPT !.attrs = Append(d.attrs, <<"fps", "60">>)]}

\* a session of the modify action
InitModify ==
    /\ engine \in {"callouts", "mdev"}
    /\ action = "modify"
    /\ dev \in {NewDev(t) : t \in MdevTypes}
    /\ hookDir \in HookDirs
    /\ notifyDir \in NotifyDirs
    /\ pc = "Start"
    /\ state = "none"
    /\ script = ""
    /\ preScript = ""
    /\ conf = None
    /\ trace = << >>
    /\ notified = << >>
    /\ listings = << >>
    /\ stages = << >>
    /\ preRes = Unset
    /\ opRes = Unset
    /\ postRes = Unset
    /\ res = Unset
    /\ NoOperation

\* the wrapped operation changes the device while it runs, once
DeviceChange ==
    /\ pc = "ActionRunning"
    /\ dev \in {NewDev(t) : t \in MdevTypes}
    /\ dev' \in Modified(dev)
    /\ UNCHANGED <<preScript, engine, action, hookDir, notifyDir, pc, state,
                   script, conf, trace, notified, listings, stages, preRes,
                   opRes, postRes, res>>
    /\ UNCHANGED devvars

NextModify ==
    \/ InvokePre
    \/ InvokeOperation
    \/ InvokePost
    \/ InvokeNotify
    \/ MdevPre
    \/ MdevOperation
    \/ MdevPost
    \/ MdevNotify
    \/ DeviceChange

SpecModify == InitModify /\ [][NextModify]_vars

(***************************************************************************)
(* callouts.rs: Callout::invoke script by script. invoke_script spawns the *)
(* child (line 151) and blocks in wait_with_output (line 160) until it     *)
(* exits; the loops of invoke_first_matching_script and notify go to the   *)
(* next entry only then. A behaviour of SpecWait is one call of invoke in  *)
(* which the scripts of hangs never exit. The program is one thread: the   *)
(* step it can take is taken (weak fairness of the next-state relation).   *)
(***************************************************************************)
\* the hook directories of the calls that are followed script by script
WaitHookNames == <<"A", "B">>
WaitHookDirs == DirsOver(WaitHookNames, Len(WaitHookNames))

\* the sets of scripts that never exit: none, or one script
HangSets ==
    {{}} \cup {{n} : n \in Range(WaitHookNames) \cup Range(NotifyNames)}

\* wait_with_output returning after a time limit, with an error
wait_with_timeout(child, hangs) ==
    IF child \in hangs THEN {InvokeErr} ELSE Outcomes

\* callouts.rs line 160, child.wait_with_output(): what the call can return;
\* it does not return while the child runs, and no time limit is set
wait_with_output(child, hangs) ==
    IF child \in hangs THEN {} ELSE Outcomes

\* the locals of the stage that is running: the scripts that never exit,
\* the kind of loop ("none" between the stages), the entries the loop has
\* not reached yet, the child that is waited for and the Result of the stage
WaitFrame(hangs, mode, rest, child, result) ==
    [hangs |-> hangs, mode |-> mode, rest |-> rest, child |-> child,
     result |-> result]

\* the stage that invoke runs next
StageOf(p) ==
    IF p = "Start" THEN "pre" ELSE IF p = "PostRunning" THEN "post"
    ELSE "notify"

\* a call of invoke, with the scripts that never exit
InitWait ==
    /\ engine = "callouts"
    /\ action = "start"
    /\ dev \in {NewDev(t) : t \in MdevTypes}
    /\ hookDir \in WaitHookDirs
    /\ notifyDir \in NotifyDirs
    /\ pc = "Start"
    /\ state = "none"
    /\ script = ""
    /\ preScript = ""
    /\ conf = None
    /\ trace = << >>
    /\ notified = << >>
    /\ listings = << >>
    /\ stages = << >>
    /\ preRes = Unset
    /\ opRes = Unset
    /\ postRes = Unset
    /\ res = Unset
    /\ sysfs = None
    /\ doc = << >>
    /\ mpc = "Idle"
    /\ frame \in {WaitFrame(h, "none", << >>, "", Unset) : h \in HangSets}
    /\ ret = Unset
    /\ log = << >>

\* callout (lines 233-259) and notify (lines 271-279) up to the first
\* script: no script when the directory is missing, the selected script
\* when there is one, else the entries of the directory
WaitEnter ==
    /\ pc \in {"Start", "PostRunning", "NotifyRunning", "Aborted"}
    /\ frame.mode = "none"
    /\ LET ev == StageOf(pc)
           dir == IF ev = "notify" THEN notifyDir ELSE hookDir
           mode == IF ev = "notify" THEN "notify"
                   ELSE IF dir.isdir /\ script # "" THEN "reuse" ELSE "scan"
           todo == IF ~dir.isdir THEN << >>
                   ELSE IF mode = "reuse" THEN <<script>> ELSE dir.entries
       IN  frame' = WaitFrame(frame.hangs, mode, todo, "",
                              callout_result(None, script))
    /\ UNCHANGED <<engine, action, dev, hookDir, notifyDir, pc, state, script,
                   preScript, conf, trace, notified, listings, stages, preRes,
                   opRes, postRes, res>>
    /\ UNCHANGED <<sysfs, doc, mpc, ret, log>>

\* invoke_script up to line 151: the child of the next entry is spawned
WaitSpawn ==
    /\ frame.mode # "none"
    /\ frame.child = ""
    /\ frame.rest # << >>
    /\ frame' = [frame EXCEPT !.child = Head(frame.rest),
                              !.rest = Tail(frame.rest)]
    /\ UNCHANGED <<engine, action, dev, hookDir, notifyDir, pc, state, script,
                   preScript, conf, trace, notified, listings, stages, preRes,
                   opRes, postRes, res>>
    /\ UNCHANGED <<sysfs, doc, mpc, ret, log>>

\* invoke_script, line 160, returns, and the loop takes the Output: notify
\* goes on (lines 282-292); the discovery ends at an exit code other than 2
\* and goes on otherwise (lines 210-228); the selected script ends the
\* stage (lines 243-248)
WaitExit ==
    /\ frame.child # ""
    /\ \E out \in wait_with_output(frame.child, frame.hangs) :
         LET ev == StageOf(pc)
             args == invoke_script(dev, state, ev, action)
             claims == out.ok /\ out.code # None /\ out.code # Some(2)
             ends == frame.mode = "reuse" \/ (frame.mode = "scan" /\ claims)
             rc == IF out.ok THEN out.code ELSE None
             rec == [script |-> frame.child, out |-> out,
                     shown |-> IF ends /\ out.ok
                               THEN print_output(TRUE, FALSE)
                               ELSE NotPrinted,
                     args |-> args]
         IN  /\ IF frame.mode = "notify"
                THEN notified' = Append(notified, rec) /\ trace' = trace
                ELSE /\ trace' = Append(trace, [event |-> ev] @@ rec)
                     /\ notified' = notified
             /\ script' = IF frame.mode = "scan" /\ claims
                          THEN frame.child ELSE script
             /\ frame' = IF ends
                         THEN WaitFrame(frame.hangs, frame.mode, << >>, "",
                                        callout_result(rc, script'))
                         ELSE [frame EXCEPT !.child = ""]
    /\ UNCHANGED <<engine, action, dev, hookDir, notifyDir, pc, state,
                   preScript, conf, listings, stages, preRes, opRes, postRes,
                   res>>
    /\ UNCHANGED <<sysfs, doc, mpc, ret, log>>

\* the stage returns, and invoke goes on as lines 97-113 say
WaitLeave ==
    /\ frame.mode # "none"
    /\ frame.child = ""
    /\ frame.rest = << >>
    /\ LET ev == StageOf(pc)
           r == frame.result
       IN  /\ stages' = Append(stages, ev)
           /\ preRes' = IF ev = "pre" THEN r ELSE preRes
           /\ preScript' = IF ev = "pre" THEN script ELSE preScript
           /\ postRes' = IF ev = "post" THEN r ELSE postRes
           /\ res' = IF ev = "pre" THEN (IF r.ok THEN res ELSE r)
                     ELSE IF ev = "post" THEN closure_result(opRes, r)
                     ELSE res
           /\ pc' = IF ev = "pre" THEN and_then(r)
                    ELSE IF ev = "post" THEN "NotifyRunning"
                    ELSE "Done"
    /\ frame' = [frame EXCEPT !.mode = "none"]
    /\ UNCHANGED <<engine, action, dev, hookDir, notifyDir, state, script,
                   conf, trace, notified, listings, opRes>>
    /\ UNCHANGED <<sysfs, doc, mpc, ret, log>>

NextWait ==
    \/ WaitEnter
    \/ WaitSpawn
    \/ WaitExit
    \/ WaitLeave
    \/ InvokeOperation

SpecWait == InitWait /\ [][NextWait]_vars /\ WF_vars(NextWait)

(***************************************************************************)
(* What the properties speak of.                                           *)
(***************************************************************************)
\* the invocations of the Pre stage and of the Post stage, in order
PreInv == SelectSeq(trace, LAMBDA r : r.event = "pre")
PostInv == SelectSeq(trace, LAMBDA r : r.event = "post")

\* how often a stage (or the operation) has run
Count(st) == Cardinality({i \in 1..Len(stages) : stages[i] = st})

\* a stage or operation has returned an error
Failed(r) == ~r.ok /\ r.kind # "unset"

\* the session runs Callout::invoke of callouts.rs
IsInvoke == engine = "callouts"

(***************************************************************************)
(* C1  In Callout::invoke, when the Pre stage returns a hard failure the   *)
(* wrapped operation is never called and the Post stage never runs; the    *)
(* session goes on to the Notify stage, which runs exactly once, after     *)
(* Pre, and invoke returns the Pre error.                                  *)
(***************************************************************************)
C1_PreFailureAborts ==
    (IsInvoke /\ Failed(preRes)) =>
        /\ Count("operation") = 0
        /\ Count("post") = 0
        /\ opRes = Unset
        /\ PostInv = << >>
        /\ res = preRes
        /\ pc \in {"Aborted", "Done"}
        /\ pc = "Aborted" => stages = <<"pre">> /\ ENABLED InvokeNotify
        /\ pc = "Done" => stages = <<"pre", "notify">>

\* invoke has returned after a script made the Pre stage fail
C1_Witness ==
    /\ IsInvoke
    /\ pc = "Done"
    /\ preRes.kind = "callout"
    /\ Len(PreInv) = 2
    /\ notified # << >>

(***************************************************************************)
(* C2  When the Pre stage succeeded, invoke returns exactly the result of  *)
(* the wrapped operation, whatever the Post stage and the Notify stage     *)
(* returned.                                                               *)
(***************************************************************************)
C2_ReturnsOperationResult ==
    (IsInvoke /\ preRes.ok /\ pc \in {"NotifyRunning", "Done"}) =>
        /\ opRes \in {Ok, OpErr}
        /\ res = opRes

\* invoke has returned Ok although the Post stage failed
C2_Witness ==
    /\ IsInvoke
    /\ pc = "Done"
    /\ opRes = Ok
    /\ Failed(postRes)
    /\ res = Ok

(***************************************************************************)
(* C3  Every call of invoke runs the Notify stage exactly once, as its     *)
(* last stage: no stage has run Notify before the session is Done, the     *)
(* session can always take its next step until then, and when it is Done   *)
(* Notify is the last entry of the stages and occurs once.                 *)
(***************************************************************************)
C3_NotifyOnceAndLast ==
    IsInvoke =>
        /\ pc # "Done" =>
               /\ Count("notify") = 0
               /\ ENABLED (InvokePre \/ InvokeOperation \/ InvokePost
                              \/ InvokeNotify)
        /\ pc = "Done" =>
               /\ Count("notify") = 1
               /\ stages[Len(stages)] = "notify"
               /\ stages \in {<<"pre", "notify">>,
                              <<"pre", "operation", "post", "notify">>}

\* invoke is Done after the operation failed and the Post stage failed
C3_Witness ==
    /\ IsInvoke
    /\ pc = "Done"
    /\ opRes = OpErr
    /\ Failed(postRes)
    /\ notified # << >>

(***************************************************************************)
(* C4  The arguments of the scripts of invoke: -s is "none" for every      *)
(* script of the Pre stage, "success" or "failure" after the result of the *)
(* operation for every script of the Post stage, and still "none" in the   *)
(* Notify stage when Pre aborted; -t, -u, -p are the type, uuid and parent *)
(* of the device, -a the action and -e the event, in every stage.          *)
(***************************************************************************)
PassedThrough(args, event) ==
    /\ args.t = dev.mdev_type
    /\ args.u = dev.uuid
    /\ Some(args.p) = dev.parent
    /\ args.a = action
    /\ args.e = event

C4_StateLabelFollowsSession ==
    IsInvoke =>
        /\ \A i \in 1..Len(trace) :
             /\ PassedThrough(trace[i].args, trace[i].event)
             /\ trace[i].event = "pre" => trace[i].args.s = "none"
             /\ trace[i].event = "post" =>
                    /\ opRes = Ok => trace[i].args.s = "success"
                    /\ opRes = OpErr => trace[i].args.s = "failure"
                    /\ opRes \in {Ok, OpErr}
        /\ \A i \in 1..Len(notified) :
             /\ PassedThrough(notified[i].args, "notify")
             /\ Failed(preRes) => notified[i].args.s = "none"
             /\ opRes = Ok => notified[i].args.s = "success"
             /\ opRes = OpErr => notified[i].args.s = "failure"

\* a Post script was given "failure" and a Pre script had been given "none"
C4_Witness ==
    /\ IsInvoke
    /\ \E i \in 1..Len(trace) :
         trace[i].event = "post" /\ trace[i].args.s = "failure"
    /\ \E i \in 1..Len(trace) :
         trace[i].event = "pre" /\ trace[i].args.s = "none"
    /\ notified # << >>

(***************************************************************************)
(* Stage steps, for the properties of one stage.                           *)
(***************************************************************************)
\* the result of the Pre or of the Post stage
StageRes(ev) == IF ev = "pre" THEN preRes ELSE postRes

\* this step runs stage ev
StageStep(ev) == stages' = Append(stages, ev)

\* the positions in trace' of the scripts this step invoked
NewInv == (Len(trace) + 1)..Len(trace')

\* a stage has iterated over the entries of the hook directory
Scanned(ev) ==
    \E i \in 1..Len(listings) :
        listings[i].event = ev /\ listings[i].op = "iterate"

ScriptsOf(inv) == [i \in 1..Len(inv) |-> inv[i].script]

EmptyDir == [isdir |-> TRUE, entries |-> << >>]

C8_AllDeclineIsSuccess ==
    [][\A ev \in {"pre", "post"} :
          (/\ StageStep(ev)
           /\ script = ""
           /\ hookDir.isdir
           /\ hookDir.entries # << >>
           /\ Len(trace') = Len(trace) + Len(hookDir.entries)
           /\ \A k \in NewInv : trace'[k].out = Exited(2)) =>
              /\ StageRes(ev)'.ok
              /\ script' = ""
              /\ ev = "pre" => pc' = "ActionRunning"]_vars

(***************************************************************************)
(* C9  The exit-code contract of a Pre or Post stage, for a script found   *)
(* by discovery and for a reused one: when the script that ends the stage  *)
(* exits 0 the stage succeeds; when it exits 2 the stage does not fail;    *)
(* when it exits with another code the stage fails with an error that      *)
(* carries the script path and the exit code. Stated for Callout::callout  *)
(* of callouts.rs, the stage of Callout::invoke.                           *)
(***************************************************************************)
C9_ExitCodeContract ==
    [][\A ev \in {"pre", "post"} :
          (IsInvoke /\ StageStep(ev) /\ Len(trace') > Len(trace)) =>
              LET last == trace'[Len(trace')]
                  r == StageRes(ev)'
              IN  /\ last.out = Exited(0) => r.ok
                  /\ last.out = Exited(2) => r.ok
                  /\ \A n \in ExitCodes \ {0, 2} :
                         last.out = Exited(n) =>
                             /\ ~r.ok
                             /\ r.script = last.script
                             /\ r.code = Some(n)]_vars

(***************************************************************************)
(* C10  A script that dies without an exit code during a discovery makes   *)
(* that discovery pass fail and is not remembered as the selected script;  *)
(* a Pre stage in which it happens does not let the operation run. Stated *)
(* for the discovery of callouts.rs, the stage of Callout::invoke.         *)
(***************************************************************************)
C10_CrashIsFailure ==
    [][\A ev \in {"pre", "post"} :
          (/\ IsInvoke
           /\ StageStep(ev)
           /\ script = ""
           /\ \E k \in NewInv : trace'[k].out = Signaled) =>
              /\ ~StageRes(ev)'.ok
              /\ \A k \in NewInv :
                     trace'[k].out = Signaled => script' # trace'[k].script
              /\ ev = "pre" => pc' # "ActionRunning"]_vars

(***************************************************************************)
(* C11  A discovery (a Pre or Post stage that starts with no selected      *)
(* script) invokes the scripts of the hook directory one after another in  *)
(* listing order: the scripts it ran are a prefix of the listing, each run *)
(* once. A script that exits 0 is the last one the stage runs and is the   *)
(* selected script afterwards: no later script of the directory is run.    *)
(***************************************************************************)
C11_DiscoveryStopsAtClaim ==
    [][\A ev \in {"pre", "post"} :
          (StageStep(ev) /\ script = "" /\ hookDir.isdir) =>
              LET new == SubSeq(trace', Len(trace) + 1, Len(trace'))
              IN  /\ Len(new) <= Len(hookDir.entries)
                  /\ ScriptsOf(new) = SubSeq(hookDir.entries, 1, Len(new))
                  /\ \A i \in 1..Len(new) :
                         new[i].out = Exited(0) =>
                             /\ i = Len(new)
                             /\ script' = new[i].script]_vars

\* a Pre discovery of invoke over A, B, C: A declined, B claimed, C was not
\* run
C11_Witness ==
    /\ IsInvoke
    /\ pc = "ActionRunning"
    /\ hookDir.entries = <<"A", "B", "C">>
    /\ ScriptsOf(PreInv) = <<"A", "B">>
    /\ PreInv[1].out = Exited(2)
    /\ PreInv[2].out = Exited(0)
    /\ script = "B"

(***************************************************************************)
(* C12  The Notify stage invokes every script of the notification          *)
(* directory once, in listing order, whatever any of them returned (an     *)
(* exit code, 2 included, a crash, a failure to run it) and whatever       *)
(* script the Pre stage selected; the stage changes neither the result of  *)
(* the session nor the selected script.                                    *)
(***************************************************************************)
C12_NotifyRunsEveryScript ==
    [][StageStep("notify") =>
          /\ notified = << >>
          /\ ScriptsOf(notified') = notifyDir.entries
          /\ \A i \in 1..Len(notified') : notified'[i].args.e = "notify"
          /\ res' = res
          /\ script' = script]_vars

\* invoke is Done with a selected script: the first notification script
\* could not be run, the second one was run all the same and exited 2
C12_Witness ==
    /\ IsInvoke
    /\ pc = "Done"
    /\ script # ""
    /\ Len(notified) = 2
    /\ notified[1].out = InvokeErr
    /\ notified[2].out = Exited(2)
    /\ res = Ok

(***************************************************************************)
(* mdev.rs: the lifecycle operations of MDev against the kernel tree.      *)
(* A behaviour of SpecLifecycle is a command that calls create(), start()  *)
(* or stop() on a device, up to MaxCalls times; start() is followed write  *)
(* by write.                                                               *)
(***************************************************************************)
\* longest attribute list of a device before an operation
MaxAttrs == 2
\* largest number of operations called in one behaviour
MaxCalls == 2

\* the attributes a device may carry (name, value)
AttrPairs == {<<"resolution", "1080p">>, <<"fps", "60">>, <<"fps", "30">>}

\* sequences over S of length 0..n
SeqsUpTo(S, n) == UNION {[1..m -> S] : m \in 0..n}

\* the error of an operation of MDev, named after its message
DevErr(k) == [ok |-> FALSE, kind |-> k, script |-> "", code |-> None]

\* parents and types a live device of this uuid may have in the kernel tree
LiveParents == {DevParent, "pci1"}
LiveTypes == MdevTypes \cup {"vgpu-2"}

\* <device-root>/<uuid>: absent (None), or present; a present path either
\* resolves to its parent and its mdev_type or does not (canonicalize fails)
Unresolved == [resolves |-> FALSE, parent |-> "", mdev_type |-> ""]
LiveDevs ==
    {[resolves |-> TRUE, parent |-> q, mdev_type |-> t] :
        q \in LiveParents, t \in LiveTypes} \cup {Unresolved}

\* what available_instances may hold: a number, or nothing that parses
AvailValues == {Some(n) : n \in {-1, 0, 1}} \cup {None}

\* the kernel tree as create() sees it for the parent and type of the device:
\* the type directory lies inside mdev_supported_types, and
\* available_instances inside the type directory
KernelTrees ==
    {fs \in [live : {None} \cup {Some(l) : l \in LiveDevs},
             registered : BOOLEAN, supported : BOOLEAN,
             avail : AvailValues] :
        /\ fs.supported => fs.registered
        /\ ~fs.supported => fs.avail = None}

\* outcomes of fs::write to a control file
WriteOutcomes == {"ok", "fail"}
\* outcomes of write_attr: the file is missing, or the write is made
AttrOutcomes == {"ok", "missing", "fail"}

\* MDev::new
NewMDev ==
    [uuid |-> DevUuid, active |-> FALSE, autostart |-> FALSE,
     parent |-> None, mdev_type |-> None, attrs |-> << >>]

\* a fs::write to a control file of the kernel tree
ControlWrite(file, data) == [kind |-> "write", file |-> file, data |-> data]

\* load_from_sysfs taking the live values whatever the entity holds
load_from_sysfs_overwrites(d, fs) ==
    IF fs.live = None THEN [ret |-> Ok, dev |-> d]
    ELSE LET l == fs.live[1]
         IN  IF ~l.resolves THEN [ret |-> DevErr("io"), dev |-> d]
             ELSE [ret |-> Ok,
                   dev |-> [d EXCEPT !.mdev_type = Some(l.mdev_type),
                                     !.parent = Some(l.parent),
                                     !.active = TRUE]]

\* MDev::load_from_sysfs
load_from_sysfs(d, fs) ==
    IF fs.live = None THEN [ret |-> Ok, dev |-> d]
    ELSE LET l == fs.live[1]
         IN  IF ~l.resolves THEN [ret |-> DevErr("io"), dev |-> d]
             ELSE IF d.parent # None /\ d.parent # Some(l.parent)
             THEN [ret |-> Ok, dev |-> d]
             ELSE IF d.mdev_type # None /\ d.mdev_type # Some(l.mdev_type)
             THEN [ret |-> Ok, dev |-> d]
             ELSE [ret |-> Ok,
                   dev |-> [d EXCEPT !.mdev_type = Some(l.mdev_type),
                                     !.parent = Some(l.parent),
                                     !.active = TRUE]]

\* create() writing to the create file without probing the live tree
create_no_probe(d, fs, wr) ==
    IF d.parent = None \/ d.mdev_type = None
    THEN [ret |-> DevErr("missing parent or type"), dev |-> d, sysfs |-> fs,
          writes |-> << >>]
    ELSE [ret |-> IF wr = "ok" THEN Ok ELSE DevErr("create failed"),
          dev |-> IF wr = "ok" THEN [d EXCEPT !.active = TRUE] ELSE d,
          sysfs |-> fs,
          writes |-> <<ControlWrite("create", d.uuid)>>]

\* MDev::create; wr is the outcome of the write to the create file
create(d, fs, wr) ==
    LET fails(k) == [ret |-> DevErr(k), dev |-> d, sysfs |-> fs,
                     writes |-> << >>]
        existing == load_from_sysfs(NewMDev, fs)
    IN  IF d.parent = None THEN fails("missing parent")
        ELSE IF d.mdev_type = None THEN fails("missing mdev_type")
        ELSE IF existing.ret.ok /\ existing.dev.active
        THEN IF existing.dev.parent # d.parent
             THEN fails("exists under different parent")
             ELSE IF existing.dev.mdev_type # d.mdev_type
             THEN fails("exists with different type")
             ELSE fails("already exists")
        ELSE IF ~fs.registered THEN fails("not registered")
        ELSE IF ~fs.supported THEN fails("type not supported")
        ELSE IF fs.avail = None THEN fails("io")
        ELSE IF fs.avail[1] = 0 THEN fails("no available instances")
        ELSE IF wr = "ok"
        THEN [ret |-> Ok, dev |-> [d EXCEPT !.active = TRUE],
              sysfs |-> [fs EXCEPT !.live =
                            Some([resolves |-> TRUE, parent |-> d.parent[1],
                                  mdev_type |-> d.mdev_type[1]])],
              writes |-> <<ControlWrite("create", d.uuid)>>]
        ELSE [ret |-> DevErr("create failed"), dev |-> d, sysfs |-> fs,
              writes |-> <<ControlWrite("create", d.uuid)>>]

\* stop() clearing the active flag whatever the write did
stop_always_inactive(d, fs, wr) ==
    IF wr = "ok" /\ fs.live # None
    THEN [ret |-> Ok, dev |-> [d EXCEPT !.active = FALSE],
          sysfs |-> [fs EXCEPT !.live = None],
          writes |-> <<ControlWrite("remove", "1")>>]
    ELSE [ret |-> DevErr("remove failed"),
          dev |-> [d EXCEPT !.active = FALSE], sysfs |-> fs,
          writes |-> <<ControlWrite("remove", "1")>>]

\* MDev::stop; wr is the outcome of the write to the remove file, which
\* exists only while the device is in the tree
stop(d, fs, wr) ==
    IF wr = "ok" /\ fs.live # None
    THEN [ret |-> Ok, dev |-> [d EXCEPT !.active = FALSE],
          sysfs |-> [fs EXCEPT !.live = None],
          writes |-> <<ControlWrite("remove", "1")>>]
    ELSE [ret |-> DevErr("remove failed"), dev |-> d, sysfs |-> fs,
          writes |-> <<ControlWrite("remove", "1")>>]

\* write_attr; w is what the attribute file does
write_attr(attr, w) ==
    IF w = "missing"
    THEN [ret |-> DevErr("invalid attribute"), writes |-> << >>]
    ELSE [ret |-> IF w = "ok" THEN Ok ELSE DevErr("attribute write failed"),
          writes |-> <<ControlWrite(attr[1], attr[2])>>]

\* the locals of an operation: its name, the number of the call, the entity
\* and the tree it was called on, the attribute start() writes next and the
\* error of the attribute write that start() is rolling back
Frame(op, n, d, fs, k, err) ==
    [op |-> op, calls |-> n, before |-> d, tree |-> fs, k |-> k, err |-> err]

\* the operation is called directly, outside of a callout session
NoSession ==
    /\ engine = "none"
    /\ action = "none"
    /\ hookDir = NoDir
    /\ notifyDir = NoDir
    /\ pc = "Idle"
    /\ state = "none"
    /\ script = ""
    /\ preScript = ""
    /\ conf = None
    /\ trace = << >>
    /\ notified = << >>
    /\ listings = << >>
    /\ stages = << >>
    /\ preRes = Unset
    /\ opRes = Unset
    /\ postRes = Unset
    /\ res = Unset

\* a command on a device, populated or not, and a kernel tree
InitLifecycle ==
    /\ dev \in {[NewMDev EXCEPT !.parent = q, !.mdev_type = t, !.attrs = a] :
                  q \in {None, Some(DevParent)},
                  t \in {None} \cup {Some(x) : x \in MdevTypes},
                  a \in SeqsUpTo(AttrPairs, MaxAttrs)}
    /\ sysfs \in KernelTrees
    /\ doc = << >>
    /\ mpc = "Idle"
    /\ frame = Frame("none", 0, NewMDev, sysfs, 0, None)
    /\ ret = Unset
    /\ log = << >>
    /\ NoSession

\* an operation may be called: none is running and the command has calls left
CanCall == mpc \in {"Idle", "Returned"} /\ frame.calls < MaxCalls

\* MDev::create called by the command
Create ==
    /\ CanCall
    /\ \E wr \in WriteOutcomes :
         LET r == create(dev, sysfs, wr)
         IN  /\ dev' = r.dev
             /\ sysfs' = r.sysfs
             /\ log' = log \o r.writes
             /\ ret' = r.ret
    /\ frame' = Frame("create", frame.calls + 1, dev, sysfs, 0, None)
    /\ mpc' = "Returned"
    /\ UNCHANGED doc
    /\ UNCHANGED sessionvars

\* MDev::stop called by the command
Stop ==
    /\ CanCall
    /\ \E wr \in WriteOutcomes :
         LET r == stop(dev, sysfs, wr)
         IN  /\ dev' = r.dev
             /\ sysfs' = r.sysfs
             /\ log' = log \o r.writes
             /\ ret' = r.ret
    /\ frame' = Frame("stop", frame.calls + 1, dev, sysfs, 0, None)
    /\ mpc' = "Returned"
    /\ UNCHANGED doc
    /\ UNCHANGED sessionvars

\* MDev::start, line 342: self.create()?; with no attribute the loop is
\* empty and start returns Ok
StartCreate ==
    /\ CanCall
    /\ \E wr \in WriteOutcomes :
         LET r == create(dev, sysfs, wr)
         IN  /\ dev' = r.dev
             /\ sysfs' = r.sysfs
             /\ log' = log \o r.writes
             /\ ret' = r.ret
             /\ mpc' = IF r.ret.ok /\ dev.attrs # << >>
                       THEN "Attrs" ELSE "Returned"
    /\ frame' = Frame("start", frame.calls + 1, dev, sysfs, 1, None)
    /\ UNCHANGED doc
    /\ UNCHANGED sessionvars

\* the loop of start() going over attrs from the last element to the first
next_attr_reversed(attrs, k) == attrs[Len(attrs) + 1 - k]

\* MDev::start, line 345: self.attrs.iter() yields the elements of attrs in
\* the order of the Vec; k counts the iterations from 1
next_attr(attrs, k) == attrs[k]

\* MDev::start, lines 345-350: the write of the next attribute; its failure
\* leads to the rollback, the last success to the return of Ok
StartWriteAttr ==
    /\ mpc = "Attrs"
    /\ \E w \in AttrOutcomes :
         LET r == write_attr(next_attr(dev.attrs, frame.k), w)
         IN  /\ log' = log \o r.writes
             /\ IF r.ret.ok
                THEN /\ frame' = [frame EXCEPT !.k = frame.k + 1]
                     /\ mpc' = IF frame.k = Len(dev.attrs)
                               THEN "Returned" ELSE "Attrs"
                     /\ ret' = Ok
                ELSE /\ frame' = [frame EXCEPT !.err = Some(r.ret)]
                     /\ mpc' = "Rollback"
                     /\ ret' = ret
    /\ UNCHANGED <<dev, sysfs, doc>>
    /\ UNCHANGED sessionvars

\* the error start() returns once stop() has run: `self.stop()?` passes an
\* error of stop on, otherwise the error of the attribute write is returned
start_rollback_result(stop_ret, e) == IF stop_ret.ok THEN e ELSE stop_ret

\* MDev::start, lines 347-348: self.stop()?; return Err(e)
StartRollback ==
    /\ mpc = "Rollback"
    /\ \E wr \in WriteOutcomes :
         LET r == stop(dev, sysfs, wr)
         IN  /\ dev' = r.dev
             /\ sysfs' = r.sysfs
             /\ log' = log \o r.writes
             /\ ret' = start_rollback_result(r.ret, frame.err[1])
    /\ mpc' = "Returned"
    /\ UNCHANGED <<doc, frame>>
    /\ UNCHANGED sessionvars

NextLifecycle ==
    \/ Create
    \/ Stop
    \/ StartCreate
    \/ StartWriteAttr
    \/ StartRollback

SpecLifecycle == InitLifecycle /\ [][NextLifecycle]_vars

(***************************************************************************)
(* mdev.rs: the attribute list of MDev. A behaviour of SpecAttrs is a      *)
(* command that calls add_attribute() and delete_attribute() on a device,  *)
(* up to MaxCalls times.                                                   *)
(***************************************************************************)
\* largest index passed to an attribute operation
MaxIndex == 4

\* index: Option<u32>
Indexes == {None} \cup {Some(i) : i \in 0..MaxIndex}

\* a panic of the operation: the thread unwinds, no Result is returned
Panic == [ok |-> FALSE, kind |-> "panic", script |-> "", code |-> None]

\* Vec::insert(i, x) for i <= len; position i of the Vec is element i + 1
VecInsert(v, i, x) == SubSeq(v, 1, i) \o <<x>> \o SubSeq(v, i + 1, Len(v))
\* Vec::remove(i) for i < len
VecRemove(v, i) == SubSeq(v, 1, i) \o SubSeq(v, i + 2, Len(v))
\* Vec::pop(): nothing is removed from an empty Vec
VecPop(v) == IF v = << >> THEN v ELSE SubSeq(v, 1, Len(v) - 1)

\* add_attribute appending whatever the index
add_attribute_appends(attrs, attr, index) ==
    [ret |-> Ok, attrs |-> Append(attrs, attr)]

\* MDev::add_attribute
add_attribute(attrs, attr, index) ==
    IF index # None
    THEN LET i == index[1]
         IN  IF i > Len(attrs)
             THEN [ret |-> DevErr("invalid attribute index"), attrs |-> attrs]
             ELSE [ret |-> Ok, attrs |-> VecInsert(attrs, i, attr)]
    ELSE [ret |-> Ok, attrs |-> Append(attrs, attr)]

\* delete_attribute removing the last element for an index out of range
delete_attribute_clamps(attrs, index) ==
    IF index # None /\ index[1] < Len(attrs)
    THEN [ret |-> Ok, attrs |-> VecRemove(attrs, index[1])]
    ELSE [ret |-> Ok, attrs |-> VecPop(attrs)]

\* MDev::delete_attribute; Vec::remove panics for an index that is not
\* below the length
delete_attribute(attrs, index) ==
    IF index # None
    THEN LET i == index[1]
         IN  IF i > Len(attrs)
             THEN [ret |-> DevErr("invalid attribute index"), attrs |-> attrs]
             ELSE IF i >= Len(attrs)
             THEN [ret |-> Panic, attrs |-> attrs]
             ELSE [ret |-> Ok, attrs |-> VecRemove(attrs, i)]
    ELSE [ret |-> Ok, attrs |-> VecPop(attrs)]

\* the record of a call: the operation, its arguments, the list before and
\* after it, and what it returned
AttrCall(op, index, attr, before, r) ==
    [kind |-> "call", op |-> op, index |-> index, attr |-> attr,
     before |-> before, after |-> r.attrs, ret |-> r.ret]

\* a device with its parent, its type and a list of attributes
InitAttrs ==
    /\ dev \in {[NewMDev EXCEPT !.parent = Some(DevParent),
                                !.mdev_type = Some(t), !.attrs = a] :
                  t \in MdevTypes, a \in SeqsUpTo(AttrPairs, MaxAttrs)}
    /\ sysfs = None
    /\ doc = << >>
    /\ mpc = "Idle"
    /\ frame = [op |-> "none"]
    /\ ret = Unset
    /\ log = << >>
    /\ NoSession

\* MDev::add_attribute called by the command
AddAttribute ==
    /\ mpc \in {"Idle", "Returned"}
    /\ Len(log) < MaxCalls
    /\ \E attr \in AttrPairs, index \in Indexes :
         LET r == add_attribute(dev.attrs, attr, index)
         IN  /\ dev' = [dev EXCEPT !.attrs = r.attrs]
             /\ ret' = r.ret
             /\ frame' = [op |-> "add_attribute"]
             /\ log' = Append(log, AttrCall("add", index, attr, dev.attrs, r))
    /\ mpc' = "Returned"
    /\ UNCHANGED <<sysfs, doc>>
    /\ UNCHANGED sessionvars

\* MDev::delete_attribute called by the command; a panic ends the command
DeleteAttribute ==
    /\ mpc \in {"Idle", "Returned"}
    /\ Len(log) < MaxCalls
    /\ \E index \in Indexes :
         LET r == delete_attribute(dev.attrs, index)
         IN  /\ dev' = [dev EXCEPT !.attrs = r.attrs]
             /\ ret' = r.ret
             /\ frame' = [op |-> "delete_attribute"]
             /\ log' = Append(log, AttrCall("delete", index, << >>,
                                            dev.attrs, r))
             /\ mpc' = IF r.ret = Panic THEN "Panicked" ELSE "Returned"
    /\ UNCHANGED <<sysfs, doc>>
    /\ UNCHANGED sessionvars

NextAttrs ==
    \/ AddAttribute
    \/ DeleteAttribute

SpecAttrs == InitAttrs /\ [][NextAttrs]_vars

(***************************************************************************)
(* mdev.rs: the persisted definition. serde_json::Value is a tagged        *)
(* record; the text of the file is the sequence of its tokens, written by  *)
(* to_string_pretty and read by from_str. A behaviour of SpecJson is a     *)
(* command that calls define(), load_definition() and load_from_json(), up *)
(* to MaxCalls times.                                                      *)
(***************************************************************************)
\* serde_json::Value
JNull == [t |-> "null"]
JStr(x) == [t |-> "str", s |-> x]
JNum(n) == [t |-> "num", n |-> n]
JArr(a) == [t |-> "arr", a |-> a]
JObj(m) == [t |-> "obj", m |-> m]

\* the keys of the objects of a definition, in the order of the map of an
\* object (sorted)
JsonKeys == <<"attrs", "fps", "mdev_type", "resolution", "start">>

\* the tokens of a JSON text
Punct(c) == [k |-> c]
StrTok(x) == [k |-> "str", s |-> x]
NumTok(n) == [k |-> "num", n |-> n]

RECURSIVE to_string_pretty(_)
RECURSIVE write_elements(_)
RECURSIVE write_members(_, _)
\* serde_json::to_string_pretty: the text of a value
to_string_pretty(v) ==
    CASE v.t = "null" -> <<Punct("null")>>
      [] v.t = "str" -> <<StrTok(v.s)>>
      [] v.t = "num" -> <<NumTok(v.n)>>
      [] v.t = "arr" -> <<Punct("[")>> \o write_elements(v.a) \o <<Punct("]")>>
      [] v.t = "obj" ->
            <<Punct("{")>> \o write_members(v.m, Listing(JsonKeys, DOMAIN v.m))
                \o <<Punct("}")>>

\* the elements of an array, separated by commas
write_elements(a) ==
    IF a = << >> THEN << >>
    ELSE to_string_pretty(Head(a))
            \o (IF Len(a) > 1 THEN <<Punct(",")>> ELSE << >>)
            \o write_elements(Tail(a))

\* the members of an object, in the order of its keys
write_members(m, keys) ==
    IF keys = << >> THEN << >>
    ELSE <<StrTok(Head(keys)), Punct(":")>> \o to_string_pretty(m[Head(keys)])
            \o (IF Len(keys) > 1 THEN <<Punct(",")>> ELSE << >>)
            \o write_members(m, Tail(keys))

\* a text that is not a JSON value
ParseError == [ok |-> FALSE, val |-> JNull, rest |-> << >>]

RECURSIVE parse_value(_)
RECURSIVE parse_elements(_, _, _)
RECURSIVE parse_members(_, _, _)
\* serde_json: the value at the head of a text and the text left after it
parse_value(text) ==
    IF text = << >> THEN ParseError
    ELSE LET h == Head(text)
         IN  CASE h.k = "null" -> [ok |-> TRUE, val |-> JNull, rest |-> Tail(text)]
               [] h.k = "str" ->
                     [ok |-> TRUE, val |-> JStr(h.s), rest |-> Tail(text)]
               [] h.k = "num" ->
                     [ok |-> TRUE, val |-> JNum(h.n), rest |-> Tail(text)]
               [] h.k = "[" -> parse_elements(Tail(text), << >>, TRUE)
               [] h.k = "{" -> parse_members(Tail(text), << >>, TRUE)
               [] OTHER -> ParseError

\* the elements of an array up to its closing bracket
parse_elements(text, acc, first) ==
    IF text = << >> THEN ParseError
    ELSE IF first /\ Head(text).k = "]"
    THEN [ok |-> TRUE, val |-> JArr(acc), rest |-> Tail(text)]
    ELSE LET r == parse_value(text)
         IN  IF ~r.ok \/ r.rest = << >> THEN ParseError
             ELSE IF Head(r.rest).k = ","
             THEN parse_elements(Tail(r.rest), Append(acc, r.val), FALSE)
             ELSE IF Head(r.rest).k = "]"
             THEN [ok |-> TRUE, val |-> JArr(Append(acc, r.val)),
                   rest |-> Tail(r.rest)]
             ELSE ParseError

\* the members of an object up to its closing brace; the last value of a
\* key that occurs twice is kept
parse_members(text, acc, first) ==
    IF text = << >> THEN ParseError
    ELSE IF first /\ Head(text).k = "}"
    THEN [ok |-> TRUE, val |-> JObj(acc), rest |-> Tail(text)]
    ELSE IF Len(text) < 3 \/ text[1].k # "str" \/ text[2].k # ":"
    THEN ParseError
    ELSE LET r == parse_value(SubSeq(text, 3, Len(text)))
             m == (text[1].s :> r.val) @@ acc
         IN  IF ~r.ok \/ r.rest = << >> THEN ParseError
             ELSE IF Head(r.rest).k = ","
             THEN parse_members(Tail(r.rest), m, FALSE)
             ELSE IF Head(r.rest).k = "}"
             THEN [ok |-> TRUE, val |-> JObj(m), rest |-> Tail(r.rest)]
             ELSE ParseError

\* serde_json::from_str: the whole text is one value
from_str(text) ==
    LET r == parse_value(text)
    IN  IF r.ok /\ r.rest = << >> THEN [ok |-> TRUE, val |-> r.val]
        ELSE [ok |-> FALSE, val |-> JNull]

\* json[key]: Null for a key that is absent and for a value that is not an
\* object
Get(json, key) ==
    IF json.t = "obj" /\ key \in DOMAIN json.m THEN json.m[key] ELSE JNull

\* to_json writing "manual" whatever autostart is
to_json_value_manual(d) ==
    IF d.mdev_type = None
    THEN [ret |-> DevErr("missing mdev_type"), val |-> JNull]
    ELSE [ret |-> Ok,
          val |-> JObj(("mdev_type" :> JStr(d.mdev_type[1]))
                    @@ ("start" :> JStr("manual"))
                    @@ ("attrs" :> JArr([i \in 1..Len(d.attrs) |->
                           JObj(d.attrs[i][1] :> JStr(d.attrs[i][2]))])))]

\* MDev::to_json(false) as a serde_json::Value
to_json_value(d) ==
    IF d.mdev_type = None
    THEN [ret |-> DevErr("missing mdev_type"), val |-> JNull]
    ELSE [ret |-> Ok,
          val |-> JObj(("mdev_type" :> JStr(d.mdev_type[1]))
                    @@ ("start" :> JStr(IF d.autostart THEN "auto"
                                        ELSE "manual"))
                    @@ ("attrs" :> JArr([i \in 1..Len(d.attrs) |->
                           JObj(d.attrs[i][1] :> JStr(d.attrs[i][2]))])))]

RECURSIVE push_members(_, _, _)
\* load_from_json, lines 162-165: every member of an attribute object is
\* pushed; as_str().unwrap() panics for a value that is not a string
push_members(attrs, m, keys) ==
    IF keys = << >> THEN [panic |-> FALSE, attrs |-> attrs]
    ELSE IF m[Head(keys)].t # "str" THEN [panic |-> TRUE, attrs |-> attrs]
    ELSE push_members(Append(attrs, <<Head(keys), m[Head(keys)].s>>), m,
                      Tail(keys))

RECURSIVE push_attrs(_, _)
\* load_from_json, lines 160-166: the elements of the array in order;
\* as_object().unwrap() panics for an element that is not an object
push_attrs(attrs, arr) ==
    IF arr = << >> THEN [panic |-> FALSE, attrs |-> attrs]
    ELSE IF Head(arr).t # "obj" THEN [panic |-> TRUE, attrs |-> attrs]
    ELSE LET r == push_members(attrs, Head(arr).m,
                               Listing(JsonKeys, DOMAIN Head(arr).m))
         IN  IF r.panic THEN r ELSE push_attrs(r.attrs, Tail(arr))

\* a warning of load_from_json
Warning(field, old, new) ==
    [kind |-> "warn", field |-> field, old |-> old, new |-> new]

\* MDev::load_from_json
load_from_json(d, parent, json) ==
    LET w1 == IF d.parent # None /\ d.parent # Some(parent)
              THEN <<Warning("parent", d.parent[1], parent)>> ELSE << >>
        d1 == [d EXCEPT !.parent = Some(parent)]
        jt == Get(json, "mdev_type")
        js == Get(json, "start")
        ja == Get(json, "attrs")
    IN  IF jt.t = "null" \/ js.t = "null"
        THEN [ret |-> DevErr("invalid json"), dev |-> d1, warns |-> w1]
        ELSE IF jt.t # "str"
        THEN [ret |-> Panic, dev |-> d1, warns |-> w1]
        ELSE LET w2 == IF d.mdev_type # None /\ d.mdev_type # Some(jt.s)
                       THEN <<Warning("mdev_type", d.mdev_type[1], jt.s)>>
                       ELSE << >>
                 d2 == [d1 EXCEPT !.mdev_type = Some(jt.s),
                                  !.autostart = (js.t = "str" /\ js.s = "auto")]
                 r == IF ja.t = "arr" THEN push_attrs(d.attrs, ja.a)
                      ELSE [panic |-> FALSE, attrs |-> d.attrs]
             IN  [ret |-> IF r.panic THEN Panic ELSE Ok,
                  dev |-> [d2 EXCEPT !.attrs = r.attrs],
                  warns |-> w1 \o w2]

\* MDev::persist_path: the file of a device is named by its parent and its
\* uuid; every device here has the uuid DevUuid
persist_path(d) == d.parent

\* the file at a path of the persist directory, None when there is none
FileAt(files, path) ==
    IF path \in DOMAIN files THEN Some(files[path]) ELSE None

\* MDev::write_config; wr is the outcome of the write of the file. Line 361
\* unwraps persist_path(), which panics for a device without parent
write_config(d, file, wr) ==
    LET j == to_json_value(d)
    IN  IF ~j.ret.ok THEN [ret |-> j.ret, doc |-> file]
        ELSE IF persist_path(d) = None THEN [ret |-> Panic, doc |-> file]
        ELSE IF wr = "ok"
        THEN [ret |-> Ok, doc |-> Some(to_string_pretty(j.val))]
        ELSE [ret |-> DevErr("io"), doc |-> file]

\* MDev::load_definition on an entity that has its parent
load_definition(d, file) ==
    IF d.parent = None THEN [ret |-> Ok, dev |-> d, warns |-> << >>]
    ELSE IF file = None THEN [ret |-> DevErr("io"), dev |-> d, warns |-> << >>]
    ELSE LET val == from_str(file[1])
         IN  IF ~val.ok
             THEN [ret |-> DevErr("json"), dev |-> d, warns |-> << >>]
             ELSE load_from_json(d, d.parent[1], val.val)

\* the values of the members of the documents that are loaded: absent (no
\* member), or a value
Absent == [t |-> "absent"]
TypeMembers == {Absent, JNum(5)} \cup {JStr(x) : x \in LiveTypes}
StartMembers == {Absent, JNull, JStr("auto"), JStr("manual")}
AttrsMembers ==
    {Absent,
     JArr(<<JObj("fps" :> JStr("60")), JObj("fps" :> JStr("30"))>>),
     JArr(<<JStr("fps")>>),
     JArr(<<JObj("fps" :> JNum(60))>>)}

\* the object with the members that are not absent
Members(t, st, a) ==
    LET mt == IF t = Absent THEN << >> ELSE "mdev_type" :> t
        ms == IF st = Absent THEN << >> ELSE "start" :> st
        ma == IF a = Absent THEN << >> ELSE "attrs" :> a
    IN  JObj(mt @@ ms @@ ma)

\* the documents handed to load_from_json
Docs ==
    {Members(t, st, a) :
        t \in TypeMembers, st \in StartMembers, a \in AttrsMembers}
        \cup {JArr(<< >>)}

\* largest number of documents a command hands to load_from_json
MaxLoads == 1

\* the locals of a call: the operation, the number of the call and of the
\* documents loaded so far, the entity before the call, the parent and the
\* document it was given, and for each path the entity whose definition is
\* in the file
JsonFrame(op, n, l, d, parent, json, defined) ==
    [op |-> op, calls |-> n, loads |-> l, before |-> d, parent |-> parent,
     json |-> json, defined |-> defined]

\* the attribute lists of the devices that are defined: none, one, a name
\* twice, two names
DefinedAttrs ==
    {<< >>,
     <<<<"fps", "60">>>>,
     <<<<"fps", "60">>, <<"fps", "30">>>>,
     <<<<"resolution", "1080p">>, <<"fps", "30">>>>}

\* a command on a device, with no definition on disk
InitJson ==
    /\ dev \in {[NewMDev EXCEPT !.parent = q, !.mdev_type = t,
                                !.autostart = au, !.attrs = a] :
                  q \in {None, Some(DevParent)},
                  t \in {None} \cup {Some(x) : x \in MdevTypes},
                  au \in BOOLEAN,
                  a \in DefinedAttrs}
    /\ sysfs = None
    /\ doc = << >>
    /\ mpc = "Idle"
    /\ frame = JsonFrame("none", 0, 0, NewMDev, "", JNull, << >>)
    /\ ret = Unset
    /\ log = << >>
    /\ NoSession

\* MDev::define called by the command on a device that has its parent
Define ==
    /\ CanCall
    /\ dev.parent # None
    /\ \E wr \in WriteOutcomes :
         LET path == persist_path(dev)[1]
             r == write_config(dev, FileAt(doc, path), wr)
         IN  /\ doc' = IF r.doc = None THEN doc
                       ELSE (path :> r.doc[1]) @@ doc
             /\ ret' = r.ret
             /\ frame' = JsonFrame("define", frame.calls + 1, frame.loads, dev,
                                   "", JNull,
                                   IF r.ret.ok
                                   THEN (path :> dev) @@ frame.defined
                                   ELSE frame.defined)
    /\ log' = << >>
    /\ mpc' = "Returned"
    /\ UNCHANGED <<dev, sysfs>>
    /\ UNCHANGED sessionvars

\* a later command: MDev::new for the same uuid and parent, then
\* MDev::load_definition
LoadDefinition ==
    /\ CanCall
    /\ LET fresh == [NewMDev EXCEPT !.parent = dev.parent]
           path == persist_path(fresh)
           r == load_definition(fresh,
                                IF path = None THEN None
                                ELSE FileAt(doc, path[1]))
       IN  /\ dev' = r.dev
           /\ ret' = r.ret
           /\ log' = r.warns
           /\ frame' = JsonFrame("load_definition", frame.calls + 1,
                                 frame.loads, fresh, "", JNull,
                                 frame.defined)
    /\ mpc' = "Returned"
    /\ UNCHANGED <<sysfs, doc>>
    /\ UNCHANGED sessionvars

\* MDev::load_from_json called by the command; a panic ends the command
LoadFromJson ==
    /\ CanCall
    /\ frame.loads < MaxLoads
    /\ \E parent \in LiveParents, json \in Docs :
         LET r == load_from_json(dev, parent, json)
         IN  /\ dev' = r.dev
             /\ ret' = r.ret
             /\ log' = r.warns
             /\ frame' = JsonFrame("load_from_json", frame.calls + 1,
                                   frame.loads + 1, dev, parent, json,
                                   frame.defined)
             /\ mpc' = IF r.ret = Panic THEN "Panicked" ELSE "Returned"
    /\ UNCHANGED <<sysfs, doc>>
    /\ UNCHANGED sessionvars

NextJson ==
    \/ Define
    \/ LoadDefinition
    \/ LoadFromJson

SpecJson == InitJson /\ [][NextJson]_vars

(***************************************************************************)
(* mdev.rs: the operations of MDev on the kernel tree and on the           *)
(* definition store together. A behaviour of SpecEntity is a command that  *)
(* calls create(), start(), stop(), load_from_sysfs(), define() or         *)
(* undefine() on a device, up to MaxCalls times.                           *)
(***************************************************************************)
\* MDev::undefine; rm is the outcome of fs::remove_file for a file that
\* exists
undefine(d, files, rm) ==
    LET path == persist_path(d)
    IN  IF path = None
        THEN [ret |-> DevErr("failed to undefine"), files |-> files]
        ELSE IF path[1] \in DOMAIN files /\ rm = "ok"
        THEN [ret |-> Ok,
              files |-> [q \in DOMAIN files \ {path[1]} |-> files[q]]]
        ELSE [ret |-> DevErr("io"), files |-> files]

\* MDev::load_from_sysfs called by the command
LoadFromSysfs ==
    /\ CanCall
    /\ LET r == load_from_sysfs(dev, sysfs)
       IN  /\ dev' = r.dev
           /\ ret' = r.ret
    /\ frame' = Frame("load_from_sysfs", frame.calls + 1, dev, sysfs, 0, None)
    /\ mpc' = "Returned"
    /\ UNCHANGED <<sysfs, doc, log>>
    /\ UNCHANGED sessionvars

\* MDev::define called by the command on any device; a panic ends the
\* command
DefineEntity ==
    /\ CanCall
    /\ \E wr \in WriteOutcomes :
         LET path == persist_path(dev)
             r == write_config(dev,
                               IF path = None THEN None
                               ELSE FileAt(doc, path[1]), wr)
         IN  /\ doc' = IF r.doc = None THEN doc
                       ELSE (path[1] :> r.doc[1]) @@ doc
             /\ ret' = r.ret
             /\ mpc' = IF r.ret = Panic THEN "Panicked" ELSE "Returned"
    /\ frame' = Frame("define", frame.calls + 1, dev, sysfs, 0, None)
    /\ UNCHANGED <<dev, sysfs, log>>
    /\ UNCHANGED sessionvars

\* MDev::undefine called by the command
Undefine ==
    /\ CanCall
    /\ \E rm \in WriteOutcomes :
         LET r == undefine(dev, doc, rm)
         IN  /\ doc' = r.files
             /\ ret' = r.ret
    /\ frame' = Frame("undefine", frame.calls + 1, dev, sysfs, 0, None)
    /\ mpc' = "Returned"
    /\ UNCHANGED <<dev, sysfs, log>>
    /\ UNCHANGED sessionvars

NextEntity ==
    \/ Create
    \/ Stop
    \/ StartCreate
    \/ StartWriteAttr
    \/ StartRollback
    \/ LoadFromSysfs
    \/ DefineEntity
    \/ Undefine

SpecEntity == InitLifecycle /\ [][NextEntity]_vars

(***************************************************************************)
(* mdev.rs: two instances of the program that call create() against the    *)
(* same kernel tree. Nothing in create() takes a lock, so the reads of     *)
(* lines 279-315 and the write of line 325 of one instance are two steps,  *)
(* between which the other instance may run. A behaviour of SpecRace is    *)
(* one call of create() by each instance.                                  *)
(***************************************************************************)
Instances == {1, 2}

\* the uuid of a second device
OtherUuid == "5f3a1e0c-7d1b-4c9e-8a55-0d2b6c1f4e77"

\* the kernel tree of the two instances: live maps the uuids that are in the
\* tree to their parent and type, the rest is the tree of the parent and type
\* both devices name
RaceTrees ==
    {[fs EXCEPT !.live = IF fs.live = None THEN << >>
                         ELSE DevUuid :> fs.live[1]] : fs \in KernelTrees}

\* the tree as create() of the device with uuid u reads it
TreeOf(fs, u) ==
    [fs EXCEPT !.live = IF u \in DOMAIN fs.live THEN Some(fs.live[u])
                        ELSE None]

\* the kernel takes a write to the create file when the uuid is not in the
\* tree and an instance of the type is left
KernelTakes(now) ==
    now.live = None /\ now.avail # None /\ now.avail[1] > 0

\* create() holding a lock over its checks and its write: the decision is
\* taken on the tree as it is when the write is made
create_write_locked(d, seen, now, wr) ==
    create(d, now, IF wr = "ok" /\ KernelTakes(now) THEN "ok" ELSE "fail")

\* MDev::create from line 322 on, after the checks passed on the tree as it
\* was seen: the write is issued without another look at the tree, and its
\* outcome is what the tree as it is now makes of it
create_write(d, seen, now, wr) ==
    create(d, seen, IF wr = "ok" /\ KernelTakes(now) THEN "ok" ELSE "fail")

\* the locals of an instance: its position in create(), its device, the
\* tree as its checks saw it and what create() returned
RaceFrame(p, d, seen, r) == [pc |-> p, dev |-> d, seen |-> seen, ret |-> r]

\* two instances about to call create(), for the same device or for two
\* devices of the same parent and type
InitRace ==
    /\ dev = [NewMDev EXCEPT !.parent = Some(DevParent),
                             !.mdev_type = Some("vgpu-1")]
    /\ sysfs \in RaceTrees
    /\ doc = << >>
    /\ mpc = "Idle"
    /\ \E u \in {DevUuid, OtherUuid} :
          frame = [i \in Instances |->
                     RaceFrame("Start",
                               IF i = 1 THEN dev ELSE [dev EXCEPT !.uuid = u],
                               None, Unset)]
    /\ ret = Unset
    /\ log = << >>
    /\ NoSession

\* MDev::create, lines 275-321, run by instance i: the checks, on the tree
\* as it is now
RaceCheckOf(i) ==
    /\ frame[i].pc = "Start"
    /\ LET seen == TreeOf(sysfs, frame[i].dev.uuid)
           r == create(frame[i].dev, seen, "fail")
           passed == r.writes # << >>
       IN  frame' = [frame EXCEPT ![i] =
                        RaceFrame(IF passed THEN "Checked" ELSE "Returned",
                                  frame[i].dev, Some(seen),
                                  IF passed THEN Unset ELSE r.ret)]
    /\ UNCHANGED <<dev, sysfs, doc, mpc, ret, log>>
    /\ UNCHANGED sessionvars

\* MDev::create, lines 322-338, run by instance i: the write
RaceWriteOf(i) ==
    /\ frame[i].pc = "Checked"
    /\ \E wr \in WriteOutcomes :
         LET d == frame[i].dev
             r == create_write(d, frame[i].seen[1], TreeOf(sysfs, d.uuid), wr)
         IN  /\ frame' = [frame EXCEPT ![i] =
                             RaceFrame("Returned", r.dev, frame[i].seen,
                                       r.ret)]
             /\ log' = log \o r.writes
             /\ sysfs' = IF r.ret.ok
                         THEN [sysfs EXCEPT
                                 !.live = (d.uuid :> r.sysfs.live[1]) @@ @,
                                 !.avail = Some(@[1] - 1)]
                         ELSE sysfs
    /\ UNCHANGED <<dev, doc, mpc, ret>>
    /\ UNCHANGED sessionvars

RaceCheck == \E i \in Instances : RaceCheckOf(i)

RaceWrite == \E i \in Instances : RaceWriteOf(i)

NextRace ==
    \/ RaceCheck
    \/ RaceWrite

SpecRace == InitRace /\ [][NextRace]_vars

(***************************************************************************)
(* What the properties of the lifecycle speak of.                          *)
(***************************************************************************)
\* this step is a call of create(), by the command or by start()
CreateStep ==
    /\ frame'.calls = frame.calls + 1
    /\ frame'.op \in {"create", "start"}

\* the live tree holds a device of this identity whose parent and type
\* can be read
LiveActive(fs) == fs.live # None /\ fs.live[1].resolves

\* the live device has the parent and the type of the entity
LiveMatches(d, fs) ==
    /\ d.parent = Some(fs.live[1].parent)
    /\ d.mdev_type = Some(fs.live[1].mdev_type)

\* the writes to the create file among the entries of a log
CreateWrites(l) == SelectSeq(l, LAMBDA w : w.file = "create")

(***************************************************************************)
(* C13  A start() in which an attribute write failed returns with the      *)
(* device not active, and returns the error of that attribute write,       *)
(* whatever the write of the rollback did.                                 *)
(***************************************************************************)
C13_StartRollsBack ==
    (mpc = "Returned" /\ frame.op = "start" /\ frame.err # None) =>
        /\ ~dev.active
        /\ ret = frame.err[1]

(***************************************************************************)
(* C14  create() on an identity that is active in the kernel tree fails:   *)
(* with "already exists" when the live parent and type are those of the    *)
(* entity, with another error when one of them differs. In both cases no   *)
(* control file is written and the active flag of the entity is left as it *)
(* was.                                                                    *)
(***************************************************************************)
C14_CreateOnActiveFails ==
    [][(CreateStep /\ LiveActive(sysfs)) =>
          /\ ~ret'.ok
          /\ mpc' = "Returned"
          /\ LiveMatches(dev, sysfs) => ret'.kind = "already exists"
          /\ ~LiveMatches(dev, sysfs) => ret'.kind # "already exists"
          /\ (/\ dev.parent # None
              /\ dev.mdev_type # None
              /\ ~LiveMatches(dev, sysfs)) =>
                 ret'.kind \in {"exists under different parent",
                                "exists with different type"}
          /\ log' = log
          /\ sysfs' = sysfs
          /\ dev' = dev]_vars

\* a second create() on the device the first one made active has returned
\* "already exists" and has written nothing
C14_Witness ==
    /\ mpc = "Returned"
    /\ frame.op = "create"
    /\ frame.calls = 2
    /\ LiveActive(frame.tree)
    /\ LiveMatches(frame.before, frame.tree)
    /\ ret = DevErr("already exists")
    /\ Len(CreateWrites(log)) = 1
    /\ dev.active

(***************************************************************************)
(* C15  create() writes the identity to the create file only when every    *)
(* validation passed: the identity is not active in the live tree, the     *)
(* parent is registered, the parent supports the type, and                 *)
(* available_instances holds a number greater than 0. A failed validation  *)
(* is reported in that order, writes nothing and leaves active unchanged.  *)
(***************************************************************************)
C15_CreateValidatesInOrder ==
    [][(CreateStep /\ dev.parent # None /\ dev.mdev_type # None) =>
          LET passed == /\ ~LiveActive(sysfs)
                        /\ sysfs.registered
                        /\ sysfs.supported
                        /\ sysfs.avail # None
                        /\ sysfs.avail[1] > 0
          IN  /\ log' # log => passed
              /\ ~passed =>
                    /\ ~ret'.ok
                    /\ log' = log
                    /\ dev'.active = dev.active
              /\ (~LiveActive(sysfs) /\ ~sysfs.registered) =>
                    ret'.kind = "not registered"
              /\ (/\ ~LiveActive(sysfs)
                  /\ sysfs.registered
                  /\ ~sysfs.supported) => ret'.kind = "type not supported"
              /\ (/\ ~LiveActive(sysfs)
                  /\ sysfs.supported
                  /\ sysfs.avail # None
                  /\ sysfs.avail[1] <= 0) =>
                    ret'.kind = "no available instances"]_vars

(***************************************************************************)
(* C16  For every attribute list and every index i from 0 to its length,   *)
(* add_attribute(n, v, i) followed by delete_attribute(i) succeeds twice   *)
(* and leaves the list it started from, in order and contents.             *)
(***************************************************************************)
C16_AddThenDeleteRestores ==
    \A j \in 1..(Len(log) - 1) :
        (/\ log[j].op = "add"
         /\ log[j].index # None
         /\ log[j].index[1] <= Len(log[j].before)
         /\ log[j + 1].op = "delete"
         /\ log[j + 1].index = log[j].index) =>
            /\ log[j].ret = Ok
            /\ log[j + 1].ret = Ok
            /\ Len(log[j].after) = Len(log[j].before) + 1
            /\ log[j].after[log[j].index[1] + 1] = log[j].attr
            /\ log[j + 1].before = log[j].after
            /\ log[j + 1].after = log[j].before

\* an attribute was inserted in the middle of a list of two and removed
\* again
C16_Witness ==
    /\ Len(log) = 2
    /\ log[1].op = "add"
    /\ log[1].index = Some(1)
    /\ Len(log[1].before) = 2
    /\ log[1].before[1] # log[1].before[2]
    /\ log[2].op = "delete"
    /\ log[2].index = Some(1)
    /\ dev.attrs = log[1].before

(***************************************************************************)
(* C17  add_attribute and delete_attribute with an index greater than the  *)
(* length of the list return the invalid-index error and leave the list    *)
(* as it was.                                                              *)
(***************************************************************************)
C17_IndexBeyondLengthFails ==
    \A j \in 1..Len(log) :
        (log[j].index # None /\ log[j].index[1] > Len(log[j].before)) =>
            /\ log[j].ret = DevErr("invalid attribute index")
            /\ log[j].after = log[j].before
            /\ j = Len(log) => dev.attrs = log[j].before

\* both operations were called with an index beyond the length of a list
\* that is not empty
C17_Witness ==
    /\ Len(log) = 2
    /\ log[1].op = "add"
    /\ log[2].op = "delete"
    /\ log[1].before # << >>
    /\ log[1].index # None
    /\ log[2].index # None
    /\ log[1].index[1] > Len(log[1].before)
    /\ log[2].index[1] > Len(log[2].before)
    /\ ~ret.ok

(***************************************************************************)
(* C18  delete_attribute without an index on an empty list returns the     *)
(* invalid-index error.                                                    *)
(***************************************************************************)
C18_DeleteLastOfEmptyFails ==
    \A j \in 1..Len(log) :
        (/\ log[j].op = "delete"
         /\ log[j].index = None
         /\ log[j].before = << >>) =>
            log[j].ret = DevErr("invalid attribute index")

(***************************************************************************)
(* C19  Round trip of a definition: when define() has written the JSON of  *)
(* a device (with its parent and type, any autostart, any attribute list,  *)
(* names repeated or not) and a fresh entity of the same uuid and parent   *)
(* loads that file, the load succeeds and the entity has the same          *)
(* mdev_type, the same autostart and the same attrs in the same order.     *)
(***************************************************************************)
C19_DefineLoadRoundTrip ==
    (/\ mpc = "Returned"
     /\ frame.op = "load_definition"
     /\ persist_path(frame.before) # None
     /\ persist_path(frame.before)[1] \in DOMAIN frame.defined) =>
        LET d == frame.defined[persist_path(frame.before)[1]]
        IN  /\ frame.before = [NewMDev EXCEPT !.parent = d.parent]
            /\ ret = Ok
            /\ dev.mdev_type = d.mdev_type
            /\ dev.autostart = d.autostart
            /\ dev.attrs = d.attrs
            /\ dev.parent = d.parent
            /\ dev.uuid = d.uuid

\* the definition of an autostart device with the attribute fps twice, with
\* two values, was written and loaded back
C19_Witness ==
    /\ mpc = "Returned"
    /\ frame.op = "load_definition"
    /\ DevParent \in DOMAIN frame.defined
    /\ frame.before.parent = Some(DevParent)
    /\ frame.defined[DevParent].autostart
    /\ frame.defined[DevParent].attrs = <<<<"fps", "60">>, <<"fps", "30">>>>
    /\ frame.before.attrs = << >>
    /\ ~frame.before.autostart
    /\ dev.attrs = <<<<"fps", "60">>, <<"fps", "30">>>>
    /\ dev.autostart

\* the (name, value) pairs of an array of single-key objects, in the order
\* of the document
DocPairs(arr) ==
    [i \in 1..Len(arr) |->
        LET key == CHOOSE x \in DOMAIN arr[i].m : TRUE
        IN  <<key, arr[i].m[key].s>>]

(***************************************************************************)
(* C20  load_from_json returns the validation error when mdev_type or      *)
(* start is absent from the document (or null), and succeeds for every     *)
(* other document: parent and mdev_type become the incoming values, with a *)
(* warning exactly for an existing value that differs, autostart becomes   *)
(* (start = "auto"), and the attributes of the document are appended in    *)
(* the order of the document.                                              *)
(***************************************************************************)
C20_LoadFromJsonContract ==
    (frame.op = "load_from_json") =>
        LET j == frame.json
            b == frame.before
            jt == Get(j, "mdev_type")
            js == Get(j, "start")
            ja == Get(j, "attrs")
            warned(f) == \E i \in 1..Len(log) : log[i].field = f
        IN  /\ (jt = JNull \/ js = JNull) => ret = DevErr("invalid json")
            /\ (jt # JNull /\ js # JNull) =>
                  /\ ret = Ok
                  /\ dev.parent = Some(frame.parent)
                  /\ dev.mdev_type = Some(jt.s)
                  /\ dev.autostart = (js = JStr("auto"))
                  /\ dev.attrs = b.attrs \o
                        (IF ja.t = "arr" THEN DocPairs(ja.a) ELSE << >>)
                  /\ warned("mdev_type") <=>
                        (b.mdev_type # None /\ b.mdev_type # Some(jt.s))
            /\ warned("parent") <=>
                  (b.parent # None /\ b.parent # Some(frame.parent))

(***************************************************************************)
(* What the properties of SpecEntity speak of.                             *)
(***************************************************************************)
\* this step is the call of operation op by the command
CallOf(op) == frame'.calls = frame.calls + 1 /\ frame'.op = op

\* the operations that touch the kernel tree or the definition store
StoreOps == {"create", "start", "stop", "define", "undefine"}

(***************************************************************************)
(* C21  create, start, stop, define and undefine called on a device whose  *)
(* parent is absent return an error: the call does not panic, and it       *)
(* changes neither the kernel tree nor the definition store.               *)
(***************************************************************************)
C21_ParentRequired ==
    [][\A op \in StoreOps :
          (CallOf(op) /\ dev.parent = None) =>
              /\ ~ret'.ok
              /\ ret' # Panic
              /\ mpc' # "Panicked"
              /\ sysfs' = sysfs
              /\ doc' = doc]_vars

(***************************************************************************)
(* C22  In Callout::invoke, when the Pre stage succeeded the wrapped       *)
(* operation is called exactly once, after Pre has returned, and the Post  *)
(* stage runs exactly once right after it, also when the operation         *)
(* returned an error; the operation never runs before Pre.                 *)
(***************************************************************************)
C22_OperationThenPost ==
    IsInvoke =>
        /\ Count("operation") > 0 => stages[1] = "pre" /\ preRes.ok
        /\ pc = "ActionRunning" => stages = <<"pre">> /\ preRes.ok
        /\ (preRes.ok /\ pc = "PostRunning") =>
               /\ stages = <<"pre", "operation">>
               /\ opRes \in {Ok, OpErr}
               /\ ENABLED InvokePost
        /\ (preRes.ok /\ pc \in {"NotifyRunning", "Done"}) =>
               /\ Len(stages) >= 3
               /\ SubSeq(stages, 1, 3) = <<"pre", "operation", "post">>
               /\ Count("operation") = 1
               /\ Count("post") = 1

\* invoke is Done: the operation failed and the Post stage ran its script
\* after it, with the label of the failure
C22_Witness ==
    /\ IsInvoke
    /\ pc = "Done"
    /\ preRes.ok
    /\ opRes = OpErr
    /\ stages = <<"pre", "operation", "post", "notify">>
    /\ Len(PostInv) = 1
    /\ PostInv[1].args.s = "failure"

(***************************************************************************)
(* C23  The writes of start() to the kernel tree: the call itself issues   *)
(* at most the create write; an attribute is written only after the create *)
(* write succeeded, and the k-th attribute write of the call is the write  *)
(* of the k-th element of attrs, right after the create write and the      *)
(* writes of the k - 1 elements before it (duplicates included); once an   *)
(* attribute write has failed the call writes no attribute any more, only  *)
(* the remove of the rollback.                                             *)
(***************************************************************************)
C23_StartWritesInOrder ==
    [][LET new == SubSeq(log', Len(log) + 1, Len(log'))
           AttrWrite(i) == ControlWrite(dev.attrs[i][1], dev.attrs[i][2])
       IN  /\ CallOf("start") =>
                  /\ new \in {<< >>, <<ControlWrite("create", dev.uuid)>>}
                  /\ mpc' = "Attrs" => ret'.ok /\ new # << >>
                  /\ mpc' \in {"Attrs", "Returned"}
           /\ (frame.op = "start" /\ mpc = "Attrs") =>
                  /\ Len(log) >= frame.k
                  /\ SubSeq(log, Len(log) - frame.k + 1, Len(log)) =
                         <<ControlWrite("create", dev.uuid)>> \o
                         [i \in 1..(frame.k - 1) |-> AttrWrite(i)]
                  /\ new \in {<< >>, <<AttrWrite(frame.k)>>}
                  /\ mpc' = "Attrs" =>
                         new # << >> /\ frame'.k = frame.k + 1
                  /\ new = << >> => mpc' = "Rollback"
                  /\ mpc' \in {"Attrs", "Rollback", "Returned"}
                  /\ mpc' = "Returned" =>
                         new # << >> /\ frame.k = Len(dev.attrs) /\ ret' = Ok
           /\ (frame.op = "start" /\ mpc = "Rollback") =>
                  /\ new = <<ControlWrite("remove", "1")>>
                  /\ mpc' = "Returned"]_vars

\* start() has returned Ok for a device with the attribute fps twice: the
\* create write, then fps = 60, then fps = 30
C23_Witness ==
    /\ frame.op = "start"
    /\ mpc = "Returned"
    /\ ret = Ok
    /\ dev.attrs = <<<<"fps", "60">>, <<"fps", "30">>>>
    /\ log = <<ControlWrite("create", DevUuid), ControlWrite("fps", "60"),
               ControlWrite("fps", "30")>>

(***************************************************************************)
(* C24  Over every sequence of create, start, stop, load_from_sysfs,       *)
(* define and undefine: active goes from false to true only in a create()  *)
(* (called by the command or by start) whose write to the create file      *)
(* succeeded, or in a load_from_sysfs() that found the device in the tree  *)
(* with a parent and a type that do not conflict with those of the entity; *)
(* it goes from true to false only in a stop() (called by the command or   *)
(* by the rollback of start) whose write to the remove file succeeded. A   *)
(* create or stop that returns an error and every other step leave active  *)
(* as it was.                                                              *)
(***************************************************************************)
C24_ActiveFollowsKernelTree ==
    [][LET new == SubSeq(log', Len(log) + 1, Len(log'))
           created == /\ CallOf("create") \/ CallOf("start")
                      /\ ret' = Ok
                      /\ new = <<ControlWrite("create", dev.uuid)>>
                      /\ sysfs'.live # None
           loaded == /\ CallOf("load_from_sysfs")
                     /\ ret' = Ok
                     /\ sysfs.live # None
                     /\ sysfs.live[1].resolves
                     /\ dev.parent \in {None, Some(sysfs.live[1].parent)}
                     /\ dev.mdev_type \in {None, Some(sysfs.live[1].mdev_type)}
                     /\ dev'.parent = Some(sysfs.live[1].parent)
                     /\ dev'.mdev_type = Some(sysfs.live[1].mdev_type)
           stopped == /\ CallOf("stop") \/ mpc = "Rollback"
                      /\ new = <<ControlWrite("remove", "1")>>
                      /\ sysfs.live # None
                      /\ sysfs'.live = None
                      /\ CallOf("stop") => ret' = Ok
       IN  /\ (~dev.active /\ dev'.active) => created \/ loaded
           /\ (dev.active /\ ~dev'.active) => stopped
           /\ ((CallOf("create") \/ CallOf("stop")) /\ ~ret'.ok) =>
                  dev'.active = dev.active
           /\ (CallOf("define") \/ CallOf("undefine")) =>
                  dev'.active = dev.active]_vars

\* an entity made active by create() and inactive again by stop()
C24_Witness ==
    /\ frame.op = "stop"
    /\ mpc = "Returned"
    /\ ret = Ok
    /\ frame.before.active
    /\ ~dev.active
    /\ log = <<ControlWrite("create", DevUuid), ControlWrite("remove", "1")>>

(***************************************************************************)
(* C25  load_from_sysfs() returns Ok and leaves every field of the entity  *)
(* as it was when the path of the uuid is not in the kernel tree, and also *)
(* when the entity has a parent or an mdev_type that differs from the live *)
(* value. When the live device resolves and nothing conflicts it returns   *)
(* Ok, sets parent and mdev_type to the live values and active to true,    *)
(* and changes nothing else. It never writes to the tree.                  *)
(***************************************************************************)
C25_LoadFromSysfsMatches ==
    [][CallOf("load_from_sysfs") =>
          LET live == sysfs.live
              conflict ==
                  \/ dev.parent # None /\ dev.parent # Some(live[1].parent)
                  \/ /\ dev.mdev_type # None
                     /\ dev.mdev_type # Some(live[1].mdev_type)
          IN  /\ live = None => ret' = Ok /\ dev' = dev
              /\ (live # None /\ live[1].resolves /\ conflict) =>
                     ret' = Ok /\ dev' = dev
              /\ (live # None /\ live[1].resolves /\ ~conflict) =>
                     /\ ret' = Ok
                     /\ dev' = [dev EXCEPT
                                   !.parent = Some(live[1].parent),
                                   !.mdev_type = Some(live[1].mdev_type),
                                   !.active = TRUE]
              /\ dev' # dev =>
                     live # None /\ live[1].resolves /\ ~conflict
              /\ sysfs' = sysfs
              /\ log' = log]_vars

\* load_from_sysfs() has left alone an entity of type vgpu-1 whose uuid is
\* live under the same parent with type vgpu-2
C25_Witness ==
    /\ frame.op = "load_from_sysfs"
    /\ mpc = "Returned"
    /\ ret = Ok
    /\ sysfs.live = Some([resolves |-> TRUE, parent |-> DevParent,
                          mdev_type |-> "vgpu-2"])
    /\ frame.before.parent = Some(DevParent)
    /\ frame.before.mdev_type = Some("vgpu-1")
    /\ dev = frame.before
    /\ ~dev.active

(***************************************************************************)
(* C26  Within one session every script of the Pre, Post and Notify stages *)
(* is given the same text on its standard input, the JSON projection of    *)
(* the device as the session found it, also when the wrapped operation     *)
(* changed the device between Pre and Post.                                *)
(***************************************************************************)
C26_SameJsonEveryStage ==
    LET ran(inv) == {i \in 1..Len(inv) : inv[i].out.ok}
        given == {trace[i].args.stdin : i \in ran(trace)} \cup
                 {notified[i].args.stdin : i \in ran(notified)}
    IN  given \subseteq {to_json(NewDev(dev.mdev_type[1]))}

(***************************************************************************)
(* C27  The error stream of every hook script that ran and left an Output  *)
(* is surfaced, in every stage: of the script that ended a Pre or Post     *)
(* stage, of the scripts that declined with exit code 2 during discovery,  *)
(* and of the notification scripts.                                        *)
(***************************************************************************)
C27_ErrorStreamSurfaced ==
    /\ \A i \in 1..Len(trace) : trace[i].out.ok => trace[i].shown.stderr
    /\ \A i \in 1..Len(notified) :
          notified[i].out.ok => notified[i].shown.stderr

(***************************************************************************)
(* C28  Two instances of the program are not synchronized: an instance     *)
(* whose checks of create() have passed can always go on, and when it does *)
(* it issues its create write, whatever the other instance has done to the *)
(* tree since the checks. So two create writes against a capacity of one   *)
(* are reachable (the witness).                                            *)
(***************************************************************************)
C28_CreateNotSynchronized ==
    /\ [](\A i \in Instances :
             frame[i].pc = "Checked" => ENABLED RaceWriteOf(i))
    /\ [][\A i \in Instances :
             (frame[i].pc = "Checked" /\ frame'[i].pc # "Checked") =>
                 log' = Append(log, ControlWrite("create",
                                                 frame[i].dev.uuid))]_vars

\* both instances saw one available instance and no device of their uuid,
\* and both have issued their create write
C28_Witness ==
    /\ \A i \in Instances :
          /\ frame[i].pc = "Returned"
          /\ frame[i].seen # None
          /\ frame[i].seen[1].avail = Some(1)
          /\ frame[i].seen[1].live = None
    /\ Len(log) = 2
    /\ \A k \in 1..2 : log[k].file = "create"

(***************************************************************************)
(* C30  delete_attribute(i) never panics: for every index i and every      *)
(* attribute list, i equal to the length and the empty list included, it   *)
(* either returns Ok and has removed exactly the element at position i, or *)
(* returns an error and has left attrs as it was.                          *)
(***************************************************************************)
C30_DeleteNeverPanics ==
    /\ mpc # "Panicked"
    /\ \A j \in 1..Len(log) :
          (log[j].op = "delete" /\ log[j].index # None) =>
              LET i == log[j].index[1]
                  before == log[j].before
              IN  /\ log[j].ret # Panic
                  /\ log[j].ret.ok =>
                         /\ i < Len(before)
                         /\ log[j].after = VecRemove(before, i)
                  /\ ~log[j].ret.ok => log[j].after = before

(***************************************************************************)
(* C29  A call of invoke in which every spawned script exits reaches Done, *)
(* whatever the hook directory and the notification directory hold, and no *)
(* stage invokes a script twice; once invoke waits for a script that never *)
(* exits it never reaches Done: no time limit ends the wait.               *)
(***************************************************************************)
C29_DoneIffScriptsExit ==
    /\ (frame.hangs = {}) ~> (pc = "Done")
    /\ [](\A i, j \in 1..Len(trace) :
             (i # j /\ trace[i].event = trace[j].event) =>
                 trace[i].script # trace[j].script)
    /\ [](\A i, j \in 1..Len(notified) :
             i # j => notified[i].script # notified[j].script)
    /\ []((frame.child \in frame.hangs) => [](pc # "Done"))

\* invoke is Done after every script exited: A and B in the Pre discovery,
\* B again in the Post stage, N1 and N2 in the Notify stage
C29_Witness ==
    /\ frame.hangs = {}
    /\ pc = "Done"
    /\ ScriptsOf(PreInv) = <<"A", "B">>
    /\ ScriptsOf(PostInv) = <<"B">>
    /\ ScriptsOf(notified) = <<"N1", "N2">>

(***************************************************************************)
(* C31  A call of load_from_json that returns the validation error         *)
(* (mdev_type or start absent from the document) leaves the entity as it   *)
(* was: parent, mdev_type, autostart and attrs have the values they had    *)
(* before the call.                                                        *)
(***************************************************************************)
C31_InvalidJsonLeavesEntity ==
    (frame.op = "load_from_json" /\ ret = DevErr("invalid json")) =>
        /\ dev.parent = frame.before.parent
        /\ dev.mdev_type = frame.before.mdev_type
        /\ dev.autostart = frame.before.autostart
        /\ dev.attrs = frame.before.attrs

====
